---- MODULE Spec2Model ----
(***************************************************************************)
(* Cart / order consistency and image-lifecycle protocol of the mousepad   *)
(* storefront backend.                                                     *)
(*                                                                         *)
(* Two deployment variants of the cart routes are modelled, selected by    *)
(* the variable `variant`, which never changes after Init:                 *)
(*   "email" - routes/cart.js (lines 1-374) over models/CartItem.js: the   *)
(*             owner is an e-mail string, items carry a caller-supplied    *)
(*             external id, POST is an upsert;                             *)
(*   "auth"  - unnamed/part_010 over the CartItem model of                 *)
(*             unnamed/part_004 (lines 245-345): the owner is the          *)
(*             authenticated user, items are addressed by the store's _id, *)
(*             together with the order routes (routes/order.js, and the    *)
(*             payment-status route of unnamed/part_007) over the Order    *)
(*             statics of unnamed/part_004 (lines 128-242), the owner path *)
(*             named as the route names it.                                *)
(*                                                                         *)
(* Specifications: SpecCart (the e-mail cart routes), SpecImages (the cart *)
(* routes of both variants), SpecOrder (carts and checkout), SpecPayment   *)
(* (orders and their payment status).                                      *)
(*                                                                         *)
(* A JSON object is a function whose domain is the set of keys present;    *)
(* a string that the code inspects (an image value) is a sequence of       *)
(* parts, so that startsWith / includes are computed and not assumed.      *)
(***************************************************************************)
EXTENDS Integers, Sequences, FiniteSets, TLC

VARIABLES
  variant,      \* deployment variant, fixed at startup
  cart,         \* the cartitems collection: a set of documents
  nextCartId,   \* next store-generated _id of a CartItem (creation order)
  orders,       \* the orders collection: a set of documents
  nextOrderId,  \* next store-generated _id of an Order
  last,         \* the last request handled and the response it got
  inflight      \* the handlers suspended at an await, with their locals

vars == <<variant, cart, nextCartId, orders, nextOrderId, last, inflight>>

---------------------------------------------------------------------------
(* Bounds of the model.                                                    *)

MaxCartItems == 2   \* CartItem documents ever created in one behaviour
MaxOrders == 1      \* Order documents ever created in one behaviour
MaxFailedSlots == 1 \* image fields failing in one request, short of all
MaxInflight == 2    \* requests handled at the same time

---------------------------------------------------------------------------
(* JSON values.                                                            *)

EmptyObject == [k \in {} |-> 0]

Has(obj, k) == k \in DOMAIN obj

\* obj restricted to the keys in keys
Pick(obj, keys) == [k \in (DOMAIN obj) \cap keys |-> obj[k]]

\* { ...a, ...b }: the keys of b win
Spread(a, b) == b @@ a

\* Image values as the client can send them.  A string is the sequence of
\* its parts; the empty string is <<>>.
HostedMain == <<"https:", "res.cloudinary.com", "upload", "main", "m1.jpg">>
HostedFinal == <<"https:", "res.cloudinary.com", "upload", "final", "f1.jpg">>
HostedOrig == <<"https:", "res.cloudinary.com", "upload", "orig", "o1.jpg">>
ExternalUrl == <<"https:", "example.com", "pads", "p.png">>
InlineData == <<"data:", "image/png;base64,", "iVBORw0KGgo">>
EmptyString == <<>>
\* any JSON value that is not a string (a number, an object, an array)
NotAString == <<"[object Object]">>

typeof(value) == IF value = NotAString THEN "object" ELSE "string"

\* String.prototype.startsWith
startsWith(value, prefix) == Len(value) >= 1 /\ value[1] = prefix

\* String.prototype.includes, for a part of the string
includes(value, part) == \E i \in 1..Len(value) : value[i] = part

\* JavaScript truthiness of obj[k]: of an image value (a sequence of
\* parts), of a plain string (an id, an e-mail, a name) and of a number.
Truthy(obj, k) == Has(obj, k) /\ obj[k] # EmptyString

TruthyStr(obj, k) == Has(obj, k) /\ obj[k] # ""

TruthyNum(obj, k) == Has(obj, k) /\ obj[k] # 0

\* obj[k] for a plain-string key, "undefined" when the key is absent
StrOf(obj, k) == IF Has(obj, k) THEN obj[k] ELSE "undefined"

---------------------------------------------------------------------------
(* routes/cart.js: payload sanitisation (reject-inline strategy).          *)

ImageFields == <<"image", "finalImage", "originalImageUrl">>

\* (mutant) a check that lets any string through
ensureHostedImageAnyString(obj, field, allowMissing) ==
  IF ~Truthy(obj, field)
    THEN IF allowMissing THEN <<>> ELSE <<field, " is required">>
    ELSE IF typeof(obj[field]) # "string"
      THEN <<field, " must be a string URL">>
      ELSE <<>>

\* ensureHostedImage(value, field, allowMissing): <<>> when it returns,
\* the message of the Error it throws otherwise.
ensureHostedImage(obj, field, allowMissing) ==
  IF ~Truthy(obj, field)
    THEN IF allowMissing THEN <<>> ELSE <<field, " is required">>
    ELSE IF typeof(obj[field]) # "string"
      THEN <<field, " must be a string URL">>
      ELSE IF startsWith(obj[field], "data:")
        THEN <<field, " must be uploaded before saving">>
        ELSE <<>>

\* The first Error thrown by checks[1], checks[2], ... (<<>> if none).
RECURSIVE FirstError(_)
FirstError(checks) ==
  IF checks = <<>> THEN <<>>
  ELSE IF Head(checks) # <<>> THEN Head(checks)
  ELSE FirstError(Tail(checks))

\* sanitizeCartPayload(payload, { partial }): the three guarded checks of
\* lines 31-39 run only on truthy values; lines 41-45 then require all
\* three unless partial.  The sanitized object is the payload itself
\* (image values are returned unchanged by ensureHostedImage).
sanitizeCartPayload(payload, partial) ==
  LET guarded == [i \in 1..3 |->
                    IF Truthy(payload, ImageFields[i])
                      THEN ensureHostedImage(payload, ImageFields[i], partial)
                      ELSE <<>>]
      required == [i \in 1..3 |->
                    IF partial THEN <<>>
                    ELSE ensureHostedImage(payload, ImageFields[i], FALSE)]
      err == FirstError(guarded \o required)
  IN [error |-> err, sanitized |-> payload]

---------------------------------------------------------------------------
(* models/CartItem.js: schema, indexes and statics.                        *)

CartSchemaDefaults ==
  [name |-> "Custom Mousepad", quantity |-> 1, currency |-> "USD"]

Currencies == {"USD", "SGD"}
MousepadTypes == {"normal", "rgb"}

\* Mongoose validation of a document built from data (run by create):
\* required paths, min validators and enums of cartItemSchema.
CartItemValid(data) ==
  /\ TruthyStr(data, "userEmail")
  /\ TruthyStr(data, "id")
  /\ Has(data, "price") /\ data.price >= 0
  /\ Has(data, "quantity") => data.quantity >= 1
  /\ Has(data, "currency") => data.currency \in Currencies
  /\ \A i \in 1..3 : Truthy(data, ImageFields[i])
  /\ Has(data, "specs")
  /\ TruthyStr(data.specs, "type") /\ data.specs.type \in MousepadTypes
  /\ TruthyStr(data.specs, "size")
  /\ TruthyStr(data.specs, "thickness")

\* (mutant) the schema without the unique index on id
DuplicateKeyNoIndex(docs, doc) == FALSE

\* The unique index on id (id: { unique: true }): writing doc next to the
\* documents in docs raises a duplicate-key error.
DuplicateKey(docs, doc) ==
  \E e \in docs : e._id # doc._id /\ e.id = doc.id

\* find({ id, userEmail }) for the values of a request
FindByIdAndEmail(docs, id, userEmail) ==
  {d \in docs : d.id = id /\ d.userEmail = userEmail}

\* The _id values of docs, newest first (sort({ createdAt: -1 })).
RECURSIVE SortNewestFirst(_)
SortNewestFirst(docs) ==
  IF docs = {} THEN <<>>
  ELSE LET newest == CHOOSE d \in docs : \A e \in docs : e._id <= d._id
       IN <<newest>> \o SortNewestFirst(docs \ {newest})

\* CartItem.getUserCart(userEmail)
getUserCart(docs, userEmail) ==
  SortNewestFirst({d \in docs : d.userEmail = userEmail})

\* CartItem.addToCart(data): the document create() would insert
addToCart(data, newId) ==
  Spread(CartSchemaDefaults, data) @@ [_id |-> newId]

\* CartItem.updateCartItem(id, userEmail, updates) applied to the matched
\* document: findOneAndUpdate with a plain object sets the given paths.
updateCartItem(doc, updates) == Spread(doc, updates)

\* (mutant) a delete filter that forgets the owner
removeFromCartAnyOwner(docs, id, userEmail) ==
  {d \in docs : d.id = id}

\* CartItem.removeFromCart(id, userEmail): the documents findOneAndDelete
\* can delete and return (none: it returns null)
removeFromCart(docs, id, userEmail) ==
  {d \in docs : d.id = id /\ d.userEmail = userEmail}

\* CartItem.clearUserCart(userEmail): the documents deleteMany deletes
clearUserCart(docs, userEmail) ==
  {d \in docs : d.userEmail = userEmail}

---------------------------------------------------------------------------
(* utils/imageProcessor.js: deleteImage.                                   *)

\* What cloudinary.uploader.destroy can do on one call.
DestroyOutcomes == {"ok", "not found", "throws"}

\* deleteImage reaches the remote call only for a Cloudinary URL.
CallsDestroy(url) == url # EmptyString /\ includes(url, "res.cloudinary.com")

\* deleteImage(imageUrl) when the remote call, if made, ends in outcome.
deleteImage(url, outcome) ==
  IF ~CallsDestroy(url) THEN TRUE ELSE outcome = "ok"

\* The cleanup of the delete handlers over the documents in items (a
\* sequence): finalImage then originalImageUrl of each, skipping falsy
\* values; outcomes[n] is the outcome of the n-th deleteImage call.
CleanupUrls(items) ==
  LET urls == [n \in 1..(2 * Len(items)) |->
                 IF n % 2 = 1 THEN items[(n + 1) \div 2].finalImage
                 ELSE items[n \div 2].originalImageUrl]
  IN SelectSeq(urls, LAMBDA u : u # EmptyString)

CleanupCalls(items, outcomes) ==
  LET urls == CleanupUrls(items)
  IN [n \in 1..Len(urls) |->
        [url |-> urls[n],
         remote |-> CallsDestroy(urls[n]),
         outcome |-> outcomes[n],
         result |-> deleteImage(urls[n], outcomes[n])]]

---------------------------------------------------------------------------
(* Requests the model sends to the e-mail variant.                         *)

Owners == {"ann@shop.io", "bob@shop.io"}
ExternalIds == {"a1", "b2"}

SpecsFull == [type |-> "normal", size |-> "400x900", thickness |-> "3mm"]

\* A complete item as the storefront sends it.
FullBody ==
  [name |-> "Pad", quantity |-> 2, price |-> 10, currency |-> "USD",
   image |-> HostedMain, finalImage |-> HostedFinal,
   originalImageUrl |-> HostedOrig, specs |-> SpecsFull]

\* A valid item that leaves name and quantity to the schema defaults and
\* whose final image is hosted elsewhere.
MinimalBody ==
  [price |-> 25, currency |-> "SGD", image |-> HostedMain,
   finalImage |-> ExternalUrl, originalImageUrl |-> HostedOrig,
   specs |-> SpecsFull]

\* Bodies that pass sanitisation and the schema.
ValidBodies == {FullBody, MinimalBody}

\* Bodies that sanitisation or the schema refuses.
DefectiveBodies ==
  { Spread(FullBody, [finalImage |-> InlineData]),
    Spread(FullBody, [image |-> InlineData]),
    Spread(FullBody, [originalImageUrl |-> InlineData]),
    Spread(FullBody, [image |-> NotAString, finalImage |-> InlineData]),
    Pick(FullBody, DOMAIN FullBody \ {"finalImage"}),
    Pick(FullBody, DOMAIN FullBody \ {"specs"}) }

PostPayloads ==
  {Spread(b, [userEmail |-> o, id |-> i]) :
     b \in ValidBodies, o \in Owners, i \in ExternalIds}
  \cup {Spread(b, [userEmail |-> "ann@shop.io", id |-> "a1"]) :
          b \in DefectiveBodies}
  \cup {Spread(FullBody, [id |-> "a1"])}

\* Partial updates sent with PUT (the body also carries userEmail).
PutUpdates ==
  { [quantity |-> 2],
    [finalImage |-> ExternalUrl],
    [finalImage |-> InlineData],
    [id |-> "b2"] }

PutRequests ==
  {[id |-> i, body |-> Spread(u, [userEmail |-> o])] :
     i \in ExternalIds, u \in PutUpdates, o \in Owners}
  \cup {[id |-> "a1", body |-> [quantity |-> 2]]}

DeleteRequests ==
  {[id |-> i, body |-> [userEmail |-> o]] : i \in ExternalIds, o \in Owners}
  \cup {[id |-> "a1", body |-> EmptyObject]}

---------------------------------------------------------------------------
(* Responses.                                                              *)

\* res.status(status).json(body), with the request that caused it and the
\* deleteImage calls made while handling it.
Respond(op, req, status, body, calls) ==
  [op |-> op, req |-> req, status |-> status, body |-> body, calls |-> calls]

Failure(message) == [success |-> FALSE, error |-> <<message>>]

---------------------------------------------------------------------------
(* routes/cart.js: the handlers.                                           *)

Unchanged == UNCHANGED <<variant, orders, nextOrderId, inflight>>

\* GET /api/cart/:userEmail
GetCart(userEmail) ==
  /\ variant = "email"
  /\ LET cartItems == getUserCart(cart, userEmail)
     IN last' = Respond("list", [userEmail |-> userEmail], 200,
                        [success |-> TRUE, count |-> Len(cartItems),
                         data |-> cartItems], <<>>)
  /\ UNCHANGED <<cart, nextCartId>>
  /\ Unchanged

\* POST /api/cart
PostCart(payload) ==
  /\ variant = "email"
  /\ LET checked == sanitizeCartPayload(payload, FALSE)
         processedData == checked.sanitized
         existing == FindByIdAndEmail(cart, StrOf(processedData, "id"),
                                      StrOf(processedData, "userEmail"))
         newCartItem == addToCart(processedData, nextCartId)
     IN IF checked.error # <<>>
          THEN /\ last' = Respond("post", payload, 400,
                                  [success |-> FALSE, error |-> checked.error],
                                  <<>>)
               /\ UNCHANGED <<cart, nextCartId>>
        ELSE IF existing # {}
          THEN \E existingItem \in existing :
                 LET updatedItem == updateCartItem(existingItem, processedData)
                 IN /\ cart' = (cart \ {existingItem}) \cup {updatedItem}
                    /\ last' = Respond("post", payload, 200,
                                       [success |-> TRUE, data |-> updatedItem],
                                       <<>>)
                    /\ UNCHANGED nextCartId
        ELSE IF ~CartItemValid(processedData) \/ DuplicateKey(cart, newCartItem)
          THEN /\ last' = Respond("post", payload, 500,
                            Failure("Server error while adding item to cart"),
                            <<>>)
               /\ UNCHANGED <<cart, nextCartId>>
        ELSE /\ nextCartId <= MaxCartItems
             /\ cart' = cart \cup {newCartItem}
             /\ nextCartId' = nextCartId + 1
             /\ last' = Respond("post", payload, 201,
                                [success |-> TRUE, data |-> newCartItem], <<>>)
  /\ Unchanged

\* PUT /api/cart/:id
PutCart(id, body) ==
  /\ variant = "email"
  /\ LET req == [id |-> id, body |-> body]
         updates == Pick(body, DOMAIN body \ {"userEmail"})
         checked == sanitizeCartPayload(updates, TRUE)
         matched == FindByIdAndEmail(cart, id, StrOf(body, "userEmail"))
     IN IF ~TruthyStr(body, "userEmail")
          THEN /\ last' = Respond("put", req, 400,
                                  Failure("User email is required"), <<>>)
               /\ UNCHANGED cart
        ELSE IF checked.error # <<>>
          THEN /\ last' = Respond("put", req, 400,
                                  [success |-> FALSE, error |-> checked.error],
                                  <<>>)
               /\ UNCHANGED cart
        ELSE IF matched = {}
          THEN /\ last' = Respond("put", req, 404,
                                  Failure("Cart item not found"), <<>>)
               /\ UNCHANGED cart
        ELSE \E item \in matched :
               LET updatedItem == updateCartItem(item, checked.sanitized)
               IN IF DuplicateKey(cart, updatedItem)
                    THEN /\ last' = Respond("put", req, 500,
                              Failure("Server error while updating cart item"),
                              <<>>)
                         /\ UNCHANGED cart
                    ELSE /\ cart' = (cart \ {item}) \cup {updatedItem}
                         /\ last' = Respond("put", req, 200,
                                      [success |-> TRUE, data |-> updatedItem],
                                      <<>>)
  /\ UNCHANGED nextCartId
  /\ Unchanged

\* (mutant) a handler that lets a failed cleanup fail the request
RemoveResponseCleanupDecides(req, deletedItem, calls) ==
  IF \E n \in 1..Len(calls) : ~calls[n].result
    THEN Respond("delete", req, 500,
                 Failure("Server error while removing item from cart"), calls)
    ELSE Respond("delete", req, 200,
                 [success |-> TRUE, data |-> deletedItem], calls)

\* The response of DELETE /api/cart/:id once the document is deleted: the
\* cleanup's try/catch swallows every failure ("Don't fail the request if
\* cleanup fails"), so the calls do not decide it.
RemoveResponse(req, deletedItem, calls) ==
  Respond("delete", req, 200, [success |-> TRUE, data |-> deletedItem], calls)

\* DELETE /api/cart/:id
DeleteCartItem(id, body) ==
  /\ variant = "email"
  /\ LET req == [id |-> id, body |-> body]
         matched == removeFromCart(cart, id, StrOf(body, "userEmail"))
     IN IF ~TruthyStr(body, "userEmail")
          THEN /\ last' = Respond("delete", req, 400,
                                  Failure("User email is required"), <<>>)
               /\ UNCHANGED cart
        ELSE IF matched = {}
          THEN /\ last' = Respond("delete", req, 404,
                                  Failure("Cart item not found"), <<>>)
               /\ UNCHANGED cart
        ELSE \E deletedItem \in matched :
             \E outcomes \in [1..Len(CleanupUrls(<<deletedItem>>)) -> DestroyOutcomes] :
               /\ cart' = cart \ {deletedItem}
               /\ last' = RemoveResponse(req, deletedItem,
                                         CleanupCalls(<<deletedItem>>, outcomes))
  /\ UNCHANGED nextCartId
  /\ Unchanged

\* DELETE /api/cart/clear/:userEmail
ClearCart(userEmail) ==
  /\ variant = "email"
  /\ LET cartItems == getUserCart(cart, userEmail)
         deleted == clearUserCart(cart, userEmail)
     IN \E outcomes \in [1..Len(CleanupUrls(cartItems)) -> DestroyOutcomes] :
          /\ cart' = cart \ deleted
          /\ last' = Respond("clear", [userEmail |-> userEmail], 200,
                             [success |-> TRUE,
                              deletedCount |-> Cardinality(deleted)],
                             CleanupCalls(cartItems, outcomes))
  /\ UNCHANGED nextCartId
  /\ Unchanged

\* (mutant) a reducer that forgets the quantity in the total
RECURSIVE reduceSummaryUnitPrice(_, _)
reduceSummaryUnitPrice(cartItems, acc) ==
  IF cartItems = <<>> THEN acc
  ELSE LET item == Head(cartItems)
       IN reduceSummaryUnitPrice(Tail(cartItems),
            [itemCount |-> acc.itemCount + item.quantity,
             totalPrice |-> acc.totalPrice + item.price])

\* cartItems.reduce(...) of the summary handler
RECURSIVE reduceSummary(_, _)
reduceSummary(cartItems, acc) ==
  IF cartItems = <<>> THEN acc
  ELSE LET item == Head(cartItems)
       IN reduceSummary(Tail(cartItems),
            [itemCount |-> acc.itemCount + item.quantity,
             totalPrice |-> acc.totalPrice + item.price * item.quantity])

\* GET /api/cart/summary/:userEmail
GetCartSummary(userEmail) ==
  /\ variant = "email"
  /\ LET cartItems == getUserCart(cart, userEmail)
         summary == reduceSummary(cartItems, [itemCount |-> 0, totalPrice |-> 0])
     IN last' = Respond("summary", [userEmail |-> userEmail], 200,
                  [success |-> TRUE,
                   data |-> [itemCount |-> summary.itemCount,
                             totalPrice |-> summary.totalPrice,
                             currency |-> IF Len(cartItems) > 0
                                            THEN cartItems[1].currency
                                            ELSE "USD"]], <<>>)
  /\ UNCHANGED <<cart, nextCartId>>
  /\ Unchanged

---------------------------------------------------------------------------
(* unnamed/part_010: payload sanitisation of the authenticated variant.    *)

\* validateImageUrl(value, field, allowMissing): <<>> when it returns, the
\* message of the Error it throws otherwise.  An absent (undefined) value
\* is passed as the empty string.
validateImageUrl(value, field, allowMissing) ==
  IF value = EmptyString
    THEN IF allowMissing THEN <<>> ELSE <<field, " is required">>
    ELSE IF typeof(value) # "string"
      THEN <<field, " must be a string URL">>
      ELSE IF startsWith(value, "data:")
        THEN <<field, " must be uploaded before saving">>
        ELSE <<>>

\* payload.specs?.k : the member, or undefined (the empty string)
Chain(obj, outer, k) ==
  IF Has(obj, outer) /\ Has(obj[outer], k) THEN obj[outer][k] ELSE ""

\* a || b || ... || default over string values
RECURSIVE FirstTruthy(_, _)
FirstTruthy(values, default) ==
  IF values = <<>> THEN default
  ELSE IF Head(values) # "" THEN Head(values)
  ELSE FirstTruthy(Tail(values), default)

\* payload.finalImage || payload.image
FinalImageOf(payload) ==
  IF Truthy(payload, "finalImage") THEN payload.finalImage
  ELSE IF Has(payload, "image") THEN payload.image
  ELSE EmptyString

\* The object literal of lines 25-35 (price is left out when undefined)
essentialFields(payload, userId) ==
  Spread(
    [user |-> userId,
     name |-> FirstTruthy(<<IF Has(payload, "name") THEN payload.name ELSE "">>,
                          "Custom Mousepad"),
     quantity |-> IF TruthyNum(payload, "quantity") THEN payload.quantity ELSE 1,
     currency |-> FirstTruthy(
                    <<IF Has(payload, "currency") THEN payload.currency ELSE "">>,
                    "USD"),
     mousepadType |-> FirstTruthy(
                    <<IF Has(payload, "mousepadType") THEN payload.mousepadType ELSE "",
                      Chain(payload, "specs", "type"),
                      Chain(payload, "configuration", "mousepadType")>>, "normal"),
     mousepadSize |-> FirstTruthy(
                    <<IF Has(payload, "mousepadSize") THEN payload.mousepadSize ELSE "",
                      Chain(payload, "specs", "size"),
                      Chain(payload, "configuration", "mousepadSize")>>, ""),
     thickness |-> FirstTruthy(
                    <<IF Has(payload, "thickness") THEN payload.thickness ELSE "",
                      Chain(payload, "specs", "thickness"),
                      Chain(payload, "configuration", "thickness")>>, ""),
     status |-> FirstTruthy(<<IF Has(payload, "status") THEN payload.status ELSE "">>,
                            "pending")],
    Pick(payload, {"price"}))

\* sanitizeCartPayload(payload, userId, { partial }) of part_010: the error
\* thrown (<<>> if none) and the essential fields it returns.
sanitizeEssentialPayload(payload, userId, partial) ==
  LET finalImage == FinalImageOf(payload)
      original == IF Truthy(payload, "originalImageUrl")
                    THEN payload.originalImageUrl ELSE EmptyString
      fields == essentialFields(payload, userId)
      guarded == <<IF finalImage # EmptyString
                     THEN validateImageUrl(finalImage, "finalImage", partial)
                     ELSE <<>>,
                   IF original # EmptyString
                     THEN validateImageUrl(original, "originalImageUrl", partial)
                     ELSE <<>> >>
      required == IF partial THEN <<>>
                  ELSE <<IF finalImage = EmptyString
                           THEN <<"finalImage", " is required">> ELSE <<>>,
                         IF original = EmptyString
                           THEN <<"originalImageUrl", " is required">> ELSE <<>>,
                         IF fields.mousepadSize = ""
                           THEN <<"mousepadSize", " is required">> ELSE <<>>,
                         IF fields.thickness = ""
                           THEN <<"thickness", " is required">> ELSE <<>> >>
      images == Spread(
                  IF finalImage # EmptyString
                    THEN [finalImage |-> finalImage] ELSE EmptyObject,
                  IF original # EmptyString
                    THEN [originalImageUrl |-> original] ELSE EmptyObject)
  IN [error |-> FirstError(guarded \o required),
      sanitized |-> Spread(fields, images)]

---------------------------------------------------------------------------
(* unnamed/part_004 (lines 245-345): the CartItem model keyed by user.     *)

CartStatuses == {"pending", "paymentFailed", "paymentSuccess", "cancelled"}

\* The validators Mongoose applies to the paths present in data
PathsValid(data) ==
  /\ Has(data, "quantity") => data.quantity >= 1
  /\ Has(data, "price") => data.price >= 0
  /\ Has(data, "currency") => data.currency \in Currencies
  /\ Has(data, "mousepadType") => data.mousepadType \in MousepadTypes
  /\ Has(data, "status") => data.status \in CartStatuses
  /\ Has(data, "name") => data.name # ""
  /\ Has(data, "finalImage") => data.finalImage # EmptyString
  /\ Has(data, "originalImageUrl") => data.originalImageUrl # EmptyString

\* Validation of a new document: the required paths and the validators
UserCartItemValid(data) ==
  /\ {"user", "name", "quantity", "price", "finalImage", "originalImageUrl"}
       \subseteq DOMAIN data
  /\ PathsValid(data)

\* An id string that does not cast to an ObjectId
MalformedId == 0

\* A well-formed id that no document of the store carries
UnknownId == MaxCartItems + MaxOrders + 1

\* find({ user }).sort({ createdAt: -1 })
getUserCartOf(docs, userId) ==
  SortNewestFirst({d \in docs : d.user = userId})

\* create(cartItemData): the store assigns _id
addUserCartItem(data, newId) == Spread(data, [_id |-> newId])

\* findOneAndDelete({ _id, user }): the documents it can delete (the query
\* is rejected with a CastError when id is no ObjectId string)
removeUserCartItem(docs, id, userId) ==
  {d \in docs : d._id = id /\ d.user = userId}

---------------------------------------------------------------------------
(* Requests the model sends to the authenticated variant.                  *)

Users == {"u1", "u2"}

\* req.user as set by isAuthenticated
Requesters ==
  {[id |-> u, role |-> "user"] : u \in Users}
    \cup {[id |-> "root", role |-> "admin"]}

SpecsRgb == [type |-> "rgb", size |-> "900x400", thickness |-> "4mm"]

\* A body with flat specification fields and every image hosted
FlatBody ==
  [name |-> "Pad", quantity |-> 2, price |-> 10, currency |-> "USD",
   finalImage |-> HostedFinal, originalImageUrl |-> HostedOrig,
   mousepadSize |-> "400x900", thickness |-> "3mm"]

\* A body in the shape of the e-mail variant: image, specs, no name
NestedBody ==
  [price |-> 25, currency |-> "SGD", image |-> ExternalUrl,
   originalImageUrl |-> HostedOrig, specs |-> SpecsRgb]

\* Bodies with an inline, non-string or missing value
UserDefectiveBodies ==
  { [FlatBody EXCEPT !.finalImage = InlineData],
    Spread(FlatBody, [image |-> InlineData]),
    [FlatBody EXCEPT !.originalImageUrl = InlineData],
    [FlatBody EXCEPT !.finalImage = NotAString,
                     !.originalImageUrl = InlineData],
    Pick(FlatBody, DOMAIN FlatBody \ {"thickness"}) }

UserPostRequests ==
  {[user |-> u, body |-> b] : u \in Users, b \in {FlatBody, NestedBody}}
    \cup {[user |-> "u1", body |-> b] : b \in UserDefectiveBodies}

UserPutUpdates ==
  { [price |-> 30, mousepadSize |-> "400x900", thickness |-> "3mm"],
    [finalImage |-> InlineData],
    [image |-> InlineData, finalImage |-> ExternalUrl] }

\* The requests that fill and change the carts ahead of a checkout
CheckoutPostRequests ==
  {[user |-> "u1", body |-> FlatBody], [user |-> "u2", body |-> NestedBody]}

CheckoutPutRequests ==
  {[user |-> u, _id |-> i, body |-> [price |-> 30]] :
     u \in Users, i \in 1..MaxCartItems}

UserPutRequests ==
  {[user |-> u, _id |-> i, body |-> b] :
     u \in Users, i \in 1..MaxCartItems, b \in UserPutUpdates}

UserDeleteRequests ==
  {[user |-> u, _id |-> i] : u \in Users, i \in 1..MaxCartItems}
    \cup {[user |-> "u1", _id |-> MalformedId]}

---------------------------------------------------------------------------
(* unnamed/part_010: the cart handlers of the authenticated variant.       *)

UnchangedOrders == UNCHANGED <<variant, orders, nextOrderId, inflight>>

\* POST /api/cart
PostUserCart(req) ==
  /\ variant = "auth"
  /\ LET checked == sanitizeEssentialPayload(req.body, req.user, FALSE)
         processedData == checked.sanitized
         newCartItem == addUserCartItem(processedData, nextCartId)
     IN IF checked.error # <<>>
          THEN /\ last' = Respond("post", req, 400,
                                  [success |-> FALSE, error |-> checked.error],
                                  <<>>)
               /\ UNCHANGED <<cart, nextCartId>>
        ELSE IF ~UserCartItemValid(processedData)
          THEN /\ last' = Respond("post", req, 500,
                            Failure("Server error while adding item to cart"),
                            <<>>)
               /\ UNCHANGED <<cart, nextCartId>>
        ELSE /\ nextCartId <= MaxCartItems
             /\ cart' = cart \cup {newCartItem}
             /\ nextCartId' = nextCartId + 1
             /\ last' = Respond("post", req, 201,
                                [success |-> TRUE, data |-> newCartItem], <<>>)
  /\ UnchangedOrders

\* PUT /api/cart/:_id
PutUserCart(req) ==
  /\ variant = "auth"
  /\ LET checked == sanitizeEssentialPayload(req.body, req.user, TRUE)
         processedUpdates ==
           Pick(checked.sanitized, DOMAIN checked.sanitized \ {"user"})
         matched == {d \in cart : d._id = req._id /\ d.user = req.user}
     IN IF checked.error # <<>>
          THEN /\ last' = Respond("put", req, 400,
                                  [success |-> FALSE, error |-> checked.error],
                                  <<>>)
               /\ UNCHANGED cart
        ELSE IF ~PathsValid(processedUpdates)
          THEN /\ last' = Respond("put", req, 500,
                            Failure("Server error while updating cart item"),
                            <<>>)
               /\ UNCHANGED cart
        ELSE IF matched = {}
          THEN /\ last' = Respond("put", req, 404,
                                  Failure("Cart item not found"), <<>>)
               /\ UNCHANGED cart
        ELSE \E item \in matched :
               LET updatedItem == updateCartItem(item, processedUpdates)
               IN /\ cart' = (cart \ {item}) \cup {updatedItem}
                  /\ last' = Respond("put", req, 200,
                                     [success |-> TRUE, data |-> updatedItem],
                                     <<>>)
  /\ UNCHANGED nextCartId
  /\ UnchangedOrders

\* DELETE /api/cart/:_id
DeleteUserCartItem(req) ==
  /\ variant = "auth"
  /\ LET matched == removeUserCartItem(cart, req._id, req.user)
     IN IF req._id = MalformedId
          THEN /\ last' = Respond("delete", req, 500,
                     Failure("Server error while removing item from cart"), <<>>)
               /\ UNCHANGED cart
        ELSE IF matched = {}
          THEN /\ last' = Respond("delete", req, 404,
                                  Failure("Cart item not found"), <<>>)
               /\ UNCHANGED cart
        ELSE \E deletedItem \in matched :
             \E outcomes \in [1..Len(CleanupUrls(<<deletedItem>>)) -> DestroyOutcomes] :
               /\ cart' = cart \ {deletedItem}
               /\ last' = Respond("delete", req, 200,
                                  [success |-> TRUE, data |-> deletedItem],
                                  CleanupCalls(<<deletedItem>>, outcomes))
  /\ UNCHANGED nextCartId
  /\ UnchangedOrders

\* The DELETE routes of the router, in the order they are registered
\* (lines 163 and 208); a path of one segment is offered to each in turn.
DeleteRoutes == <<":_id", "clear">>

RouteMatches(route, segment) == route = ":_id" \/ route = segment

\* The first registered route that matches the segment: its handler
\* answers and no later route sees the request.
FirstRoute(routes, segment) ==
  routes[CHOOSE n \in 1..Len(routes) :
           /\ RouteMatches(routes[n], segment)
           /\ \A k \in 1..(n - 1) : ~RouteMatches(routes[k], segment)]

\* deleteMany({ user }): the documents it deletes
clearUserCartOf(docs, userId) == {d \in docs : d.user = userId}

\* DELETE /api/cart/clear.  The path matches '/:_id' first, whose handler
\* runs with _id = 'clear': removeFromCart cannot cast it to an ObjectId
\* and the catch of that handler answers 500.  The handler of '/clear'
\* (lines 208-244) is what would run were it registered first.
ClearUserCart(userId) ==
  /\ variant = "auth"
  /\ LET req == [user |-> userId]
         cartItems == getUserCartOf(cart, userId)
         deleted == clearUserCartOf(cart, userId)
     IN IF FirstRoute(DeleteRoutes, "clear") = ":_id"
          THEN /\ last' = Respond("clear", req, 500,
                     Failure("Server error while removing item from cart"), <<>>)
               /\ UNCHANGED cart
        ELSE \E outcomes \in [1..Len(CleanupUrls(cartItems)) -> DestroyOutcomes] :
               /\ cart' = cart \ deleted
               /\ last' = Respond("clear", req, 200,
                                  [success |-> TRUE,
                                   deletedCount |-> Cardinality(deleted)],
                                  CleanupCalls(cartItems, outcomes))
  /\ UNCHANGED nextCartId
  /\ UnchangedOrders

---------------------------------------------------------------------------
(* unnamed/part_004: the Order model.                                      *)

OrderStatuses ==
  {"pending", "processing", "shipped", "delivered", "cancelled", "paymentFailed"}

PaymentStatuses == {"pending", "processing", "completed", "failed", "refunded"}

\* Validation of a new Order document (run by create): the required paths
\* and the min / enum validators of orderSchema.
OrderValid(data) ==
  /\ data.user # ""
  /\ \A n \in 1..Len(data.items) : Has(data.items[n], "cartItemId")
  /\ data.subtotal >= 0 /\ data.shipping >= 0
  /\ data.tax >= 0 /\ data.total >= 0
  /\ data.currency \in Currencies
  /\ data.status \in OrderStatuses
  /\ data.paymentStatus \in PaymentStatuses

\* Order.createOrder(orderData): the store assigns _id
createOrder(orderData, newId) == Spread(orderData, [_id |-> newId])

\* Order.getOrderById(orderId): the documents findOne can return (the
\* query is rejected with a CastError when orderId is no ObjectId string;
\* the handlers' catch then answers 500)
getOrderById(docs, orderId) == {o \in docs : o._id = orderId}

---------------------------------------------------------------------------
(* Requests the model sends to the order routes.                           *)

\* An e-mail address as the parts isEmail inspects
CustomerEmail == <<"ann", "@", "shop.io">>

isEmail(value) ==
  Len(value) = 3 /\ value[1] # "" /\ value[2] = "@" /\ value[3] # ""

CustomerAddress ==
  [street |-> "1 Main St", city |-> "Austin", state |-> "TX",
   zipCode |-> "73301"]

CustomerInfo ==
  [firstName |-> "Ann", lastName |-> "Lee", email |-> CustomerEmail,
   phone |-> "555-0100", address |-> CustomerAddress]

\* One entry of req.body.items: the id alone, or the id with values for
\* the snapshot fields that differ from every stored item
ItemLine(id) == [cartItemId |-> id]

ForgedLine(id) ==
  [cartItemId |-> id, name |-> "Free Pad", quantity |-> 9, price |-> 0,
   currency |-> "SGD", finalImage |-> InlineData,
   originalImageUrl |-> InlineData, mousepadType |-> "rgb",
   mousepadSize |-> "1x1", thickness |-> "9mm"]

ItemLines ==
  {ItemLine(i) : i \in (1..MaxCartItems) \cup {UnknownId}}
    \cup {ForgedLine(1)}

ItemLists ==
  {<<a>> : a \in ItemLines \cup {ItemLine(MalformedId)}}
    \cup {<<a, b>> : a \in ItemLines, b \in ItemLines}

OrderBody(items) ==
  [items |-> items, subtotal |-> 45, total |-> 45,
   customerInfo |-> CustomerInfo]

CreateOrderBodies ==
  {OrderBody(items) : items \in ItemLists}
    \cup { OrderBody(<<>>),
           [OrderBody(<<ItemLine(1)>>) EXCEPT
              !.customerInfo = [CustomerInfo EXCEPT !.email = <<"ann">>]],
           Pick(OrderBody(<<ItemLine(1)>>), {"items", "customerInfo"}),
           Spread(OrderBody(<<ItemLine(1)>>),
                  [_id |-> UnknownId, status |-> "delivered",
                   paymentStatus |-> "completed"]) }

CreateOrderRequests ==
  {[user |-> r, body |-> b] :
     r \in {q \in Requesters : q.role = "user"}, b \in CreateOrderBodies}

OrderIds == (1..MaxOrders) \cup {UnknownId, MalformedId}

GetOrderRequests ==
  {[user |-> r, _id |-> i] : r \in Requesters, i \in OrderIds}

PaymentBodies ==
  {[status |-> s] : s \in PaymentStatuses \cup {"paid"}}
    \cup {[status |-> "completed", paymentTransactionId |-> "txn-1"]}

PaymentRequests ==
  {[user |-> r, _id |-> i, body |-> b] :
     r \in Requesters, i \in OrderIds, b \in PaymentBodies}

\* The checkouts that precede the payment updates
PaidOrderRequests ==
  {[user |-> [id |-> u, role |-> "user"],
    body |-> OrderBody(<<ItemLine(i)>>)] : u \in Users, i \in 1..MaxCartItems}

---------------------------------------------------------------------------
(* routes/order.js and unnamed/part_007: the order handlers.               *)

UnchangedCart == UNCHANGED <<variant, cart, nextCartId, inflight>>

\* The express-validator chain of POST /api/order has no error
OrderBodyValid(body) ==
  /\ Has(body, "items") /\ Len(body.items) >= 1
  /\ \A n \in 1..Len(body.items) : Has(body.items[n], "cartItemId")
  /\ Has(body, "subtotal") /\ Has(body, "total")
  /\ Has(body, "customerInfo")
  /\ \A k \in {"firstName", "lastName", "phone"} :
       TruthyStr(body.customerInfo, k)
  /\ Has(body.customerInfo, "email") /\ isEmail(body.customerInfo.email)
  /\ Has(body.customerInfo, "address")
  /\ \A k \in {"street", "city", "state", "zipCode"} :
       TruthyStr(body.customerInfo.address, k)

SnapshotFields ==
  {"name", "quantity", "price", "currency", "finalImage", "originalImageUrl",
   "mousepadType", "mousepadSize", "thickness"}

\* (mutant) a snapshot that prefers the values of the request item
SnapshotFromRequest(item, cartItem) ==
  Spread(Spread(Pick(cartItem, SnapshotFields), Pick(item, SnapshotFields)),
         [cartItemId |-> item.cartItemId])

\* The object items.map builds for one request item (lines 54-68)
Snapshot(item, cartItem) ==
  Spread(Pick(cartItem, SnapshotFields), [cartItemId |-> item.cartItemId])

\* (mutant) a lookup that forgets the owner
findOwnedCartItemsAnyUser(docs, cartItemIds, userId) ==
  {d \in docs : \E n \in 1..Len(cartItemIds) : d._id = cartItemIds[n]}

\* CartItem.find({ _id: { $in: cartItemIds }, user: userId }) (lines 39-42)
findOwnedCartItems(docs, cartItemIds, userId) ==
  {d \in docs : /\ \E n \in 1..Len(cartItemIds) : d._id = cartItemIds[n]
                /\ d.user = userId}

\* cartItems.length === cartItemIds.length (line 44)
AllResolved(cartItems, cartItemIds) ==
  Cardinality(cartItems) = Len(cartItemIds)

NumOr(obj, k, default) == IF TruthyNum(obj, k) THEN obj[k] ELSE default

\* The orderData literal of lines 52-90
OrderFields(userId, body, cartItems) ==
  [user |-> userId,
   items |-> [n \in 1..Len(body.items) |->
                Snapshot(body.items[n],
                         CHOOSE ci \in cartItems :
                           ci._id = body.items[n].cartItemId)],
   subtotal |-> NumOr(body, "subtotal", 0),
   shipping |-> NumOr(body, "shipping", 0),
   tax |-> NumOr(body, "tax", 0),
   total |-> NumOr(body, "total", 0),
   currency |-> FirstTruthy(
                  <<IF Has(body, "currency") THEN body.currency ELSE "">>, "USD"),
   customerInfo |->
     Spread(Pick(body.customerInfo, {"firstName", "lastName", "email", "phone"}),
            [address |->
               Spread(Pick(body.customerInfo.address,
                           {"street", "city", "state", "zipCode"}),
                      [country |-> FirstTruthy(
                         <<IF Has(body.customerInfo.address, "country")
                             THEN body.customerInfo.address.country ELSE "">>,
                         "United States")]),
             additionalNotes |-> FirstTruthy(
               <<IF Has(body.customerInfo, "additionalNotes")
                   THEN body.customerInfo.additionalNotes ELSE "">>, "")])]

OrderDataFromBody(userId, body, cartItems) ==
  Spread(Spread(OrderFields(userId, body, cartItems),
                [status |-> "pending", paymentStatus |-> "pending"]),
         Pick(body, {"status", "paymentStatus"}))
OrderData(userId, body, cartItems) ==
  Spread(OrderFields(userId, body, cartItems),
         [status |-> "pending", paymentStatus |-> "pending"])

\* POST /api/order
CreateOrder(req) ==
  /\ variant = "auth"
  /\ LET body == req.body
         userId == req.user.id
         cartItemIds == [n \in 1..Len(body.items) |-> body.items[n].cartItemId]
         cartItems == findOwnedCartItems(cart, cartItemIds, userId)
         orderData == OrderData(userId, body, cartItems)
         order == createOrder(orderData, nextOrderId)
         failed == Respond("createOrder", req, 500,
                           Failure("Server error while creating order"), <<>>)
     IN IF ~OrderBodyValid(body)
          THEN /\ last' = Respond("createOrder", req, 400,
                                  [success |-> FALSE,
                                   errors |-> <<"validation">>], <<>>)
               /\ UNCHANGED <<orders, nextOrderId>>
        ELSE IF \E n \in 1..Len(cartItemIds) : cartItemIds[n] = MalformedId
          THEN last' = failed /\ UNCHANGED <<orders, nextOrderId>>
        ELSE IF ~AllResolved(cartItems, cartItemIds)
          THEN /\ last' = Respond("createOrder", req, 400,
                 Failure("Some cart items do not belong to you or do not exist"),
                 <<>>)
               /\ UNCHANGED <<orders, nextOrderId>>
        ELSE IF \/ \E n \in 1..Len(cartItemIds) :
                     \A ci \in cartItems : ci._id # cartItemIds[n]
                \/ ~OrderValid(orderData)
          THEN last' = failed /\ UNCHANGED <<orders, nextOrderId>>
        ELSE /\ nextOrderId <= MaxOrders
             /\ orders' = orders \cup {order}
             /\ nextOrderId' = nextOrderId + 1
             /\ last' = Respond("createOrder", req, 201,
                                [success |-> TRUE, data |-> order], <<>>)
  /\ UnchangedCart

\* GET /api/order/:_id
GetOrder(req) ==
  /\ variant = "auth"
  /\ LET found == getOrderById(orders, req._id)
     IN IF req._id = MalformedId
          THEN last' = Respond("getOrder", req, 500,
                         Failure("Server error while fetching order"), <<>>)
        ELSE IF found = {}
          THEN last' = Respond("getOrder", req, 404,
                               Failure("Order not found"), <<>>)
        ELSE \E order \in found :
          IF order.user # req.user.id /\ req.user.role # "admin"
            THEN last' = Respond("getOrder", req, 403,
                           Failure("Not authorized to access this order"), <<>>)
          ELSE last' = Respond("getOrder", req, 200,
                               [success |-> TRUE, data |-> order], <<>>)
  /\ UNCHANGED <<orders, nextOrderId>>
  /\ UnchangedCart

\* (mutant) an update that sets the payment status and nothing else
updateDataPaymentOnly(body) ==
  Spread([paymentStatus |-> body.status],
         IF TruthyStr(body, "paymentTransactionId")
           THEN [paymentTransactionId |-> body.paymentTransactionId]
           ELSE EmptyObject)

\* (mutant) an update that also resets the total of the order
updateDataResetsTotal(body) ==
  Spread(updateDataPaymentOnly(body), [total |-> 0])

\* (mutant) an update that also cancels the order when it is refunded
updateDataRefundCancels(body) ==
  Spread(Spread([paymentStatus |-> body.status],
                IF body.status = "completed" THEN [status |-> "processing"]
                ELSE IF body.status = "failed" THEN [status |-> "paymentFailed"]
                ELSE IF body.status = "refunded" THEN [status |-> "cancelled"]
                ELSE EmptyObject),
         IF TruthyStr(body, "paymentTransactionId")
           THEN [paymentTransactionId |-> body.paymentTransactionId]
           ELSE EmptyObject)

\* The updateData object of the payment-status handlers (lines 214-228)
updateData(body) ==
  Spread(Spread([paymentStatus |-> body.status],
                IF body.status = "completed" THEN [status |-> "processing"]
                ELSE IF body.status = "failed" THEN [status |-> "paymentFailed"]
                ELSE EmptyObject),
         IF TruthyStr(body, "paymentTransactionId")
           THEN [paymentTransactionId |-> body.paymentTransactionId]
           ELSE EmptyObject)

\* The part of the payment-status handlers that follows authorisation:
\* findByIdAndUpdate with $set, then the response.
ApplyPaymentStatus(op, req, order, notify) ==
  LET updatedOrder == Spread(order, updateData(req.body))
  IN /\ orders' = (orders \ {order}) \cup {updatedOrder}
     /\ last' = Respond(op, req, 200,
                        [success |-> TRUE, data |-> updatedOrder],
                        IF notify
                          THEN <<[fn |-> "sendOrderConfirmationEmail",
                                  order |-> updatedOrder]>>
                          ELSE <<>>)

\* PATCH /api/order/:_id/payment-status of routes/order.js
UpdatePaymentStatus(req) ==
  /\ variant = "auth"
  /\ LET found == getOrderById(orders, req._id)
     IN IF ~(Has(req.body, "status") /\ req.body.status \in PaymentStatuses)
          THEN /\ last' = Respond("paymentStatus", req, 400,
                                  [success |-> FALSE,
                                   errors |-> <<"validation">>], <<>>)
               /\ UNCHANGED orders
        ELSE IF req._id = MalformedId
          THEN /\ last' = Respond("paymentStatus", req, 500,
                     Failure("Server error while updating order payment status"),
                     <<>>)
               /\ UNCHANGED orders
        ELSE IF found = {}
          THEN /\ last' = Respond("paymentStatus", req, 404,
                                  Failure("Order not found"), <<>>)
               /\ UNCHANGED orders
        ELSE \E order \in found :
          IF order.user # req.user.id /\ req.user.role # "admin"
            THEN /\ last' = Respond("paymentStatus", req, 403,
                           Failure("Not authorized to update this order"), <<>>)
                 /\ UNCHANGED orders
          ELSE ApplyPaymentStatus("paymentStatus", req, order, FALSE)
  /\ UNCHANGED nextOrderId
  /\ UnchangedCart

\* PATCH /api/order/:_id/payment-status of unnamed/part_007: the caller
\* names its own user id, no role is consulted, and the order confirmation
\* is sent after every successful update.
UpdatePaymentStatusByUserId(req) ==
  /\ variant = "auth"
  /\ LET found == getOrderById(orders, req._id)
     IN IF ~(Has(req.body, "status") /\ req.body.status \in PaymentStatuses)
          THEN /\ last' = Respond("paymentStatusByUserId", req, 400,
                                  [success |-> FALSE,
                                   errors |-> <<"validation">>], <<>>)
               /\ UNCHANGED orders
        ELSE IF req._id = MalformedId
          THEN /\ last' = Respond("paymentStatusByUserId", req, 500,
                     Failure("Server error while updating order payment status"),
                     <<>>)
               /\ UNCHANGED orders
        ELSE IF found = {}
          THEN /\ last' = Respond("paymentStatusByUserId", req, 404,
                                  Failure("Order not found"), <<>>)
               /\ UNCHANGED orders
        ELSE \E order \in found :
          IF order.user # req.user.id
            THEN /\ last' = Respond("paymentStatusByUserId", req, 403,
                           Failure("Not authorized to update this order"), <<>>)
                 /\ UNCHANGED orders
          ELSE ApplyPaymentStatus("paymentStatusByUserId", req, order, TRUE)
  /\ UNCHANGED nextOrderId
  /\ UnchangedCart

---------------------------------------------------------------------------
(* PATCH /api/cart/payment: routes/cart.js (lines 308-351) and             *)
(* unnamed/part_010 (lines 278-320).                                       *)

\* The parts of an owner string that isEmail inspects
Parts(s) ==
  CASE s = "ann@shop.io" -> <<"ann", "@", "shop.io">>
    [] s = "bob@shop.io" -> <<"bob", "@", "shop.io">>
    [] OTHER -> <<s>>

\* The paths of cartItemSchema in models/CartItem.js: there is no status
CartItemPaths ==
  {"userEmail", "id", "name", "quantity", "price", "currency", "image",
   "finalImage", "originalImageUrl", "specs", "configuration",
   "createdAt", "updatedAt"}

\* The paths of cartItemSchema in unnamed/part_004
UserCartItemPaths ==
  {"user", "name", "quantity", "price", "currency", "finalImage",
   "originalImageUrl", "mousepadType", "mousepadSize", "thickness",
   "status", "createdAt", "updatedAt"}

\* (mutant) an update that is written as given, whatever the schema says
castUpdateLoose(update, paths) == update

\* Mongoose casts an update against the schema (strict mode): a path the
\* schema does not declare is dropped from $set.
castUpdate(update, paths) == Pick(update, paths)

\* (mutant) an updateMany filter that forgets the owner
matchForPaymentAnyUser(docs, userId, itemIds) ==
  {d \in docs : \E n \in 1..Len(itemIds) : d._id = itemIds[n]}

\* The filter { user: req.user.id, _id: { $in: itemIds } }
matchForPayment(docs, userId, itemIds) ==
  {d \in docs : d.user = userId /\ \E n \in 1..Len(itemIds) : d._id = itemIds[n]}

\* The express-validator chain on status and itemIds
PaymentPatchValid(body) ==
  /\ Has(body, "status") /\ body.status \in CartStatuses
  /\ Has(body, "itemIds") /\ Len(body.itemIds) >= 1

PaymentPatchInvalid ==
  [success |-> FALSE, message |-> <<"Validation failed">>]

PaymentPatchNotFound ==
  [success |-> FALSE, message |-> <<"No cart items found or updated">>]

\* The 200 response; its message carries updated.modifiedCount
PaymentPatchDone(modifiedCount) ==
  [success |-> TRUE,
   message |-> <<"Payment status updated for ", modifiedCount, " items.">>]

\* Requests
PaymentPatchBodies ==
  {[email |-> o, status |-> "paymentSuccess", itemIds |-> ids] :
     o \in Owners, ids \in {<<"a1">>, <<"a1", "b2">>}}
    \cup { [email |-> "ann.shop.io", status |-> "paymentSuccess",
            itemIds |-> <<"a1">>],
           [email |-> "ann@shop.io", status |-> "paid", itemIds |-> <<"a1">>],
           [email |-> "ann@shop.io", status |-> "cancelled", itemIds |-> <<>>] }

UserPaymentPatchRequests ==
  {[user |-> u, body |-> [status |-> s, itemIds |-> ids]] :
     u \in Users, s \in {"paymentSuccess", "cancelled"},
     ids \in {<<1>>, <<1, 2>>, <<UnknownId>>}}
    \cup { [user |-> "u1", body |-> [status |-> "paid", itemIds |-> <<1>>]],
           [user |-> "u1", body |-> [status |-> "cancelled", itemIds |-> <<>>]],
           [user |-> "u1",
            body |-> [status |-> "cancelled", itemIds |-> <<1, MalformedId>>]] }

\* PATCH /api/cart/payment of routes/cart.js.  Every matched document is
\* modified (updatedAt is set anew), but $set.status does not survive the
\* cast against models/CartItem.js.
PatchPayment(body) ==
  /\ variant = "email"
  /\ LET matched == {d \in cart :
                       /\ d.userEmail = body.email
                       /\ \E n \in 1..Len(body.itemIds) : d.id = body.itemIds[n]}
         set == castUpdate([status |-> body.status], CartItemPaths)
     IN IF ~(Has(body, "email") /\ isEmail(Parts(body.email))
             /\ PaymentPatchValid(body))
          THEN /\ last' = Respond("payment", body, 400, PaymentPatchInvalid, <<>>)
               /\ UNCHANGED cart
        ELSE IF Cardinality(matched) = 0
          THEN /\ last' = Respond("payment", body, 404, PaymentPatchNotFound, <<>>)
               /\ UNCHANGED cart
        ELSE /\ cart' = (cart \ matched) \cup {Spread(d, set) : d \in matched}
             /\ last' = Respond("payment", body, 200,
                                PaymentPatchDone(Cardinality(matched)), <<>>)
  /\ UNCHANGED nextCartId
  /\ Unchanged

\* PATCH /api/cart/payment of unnamed/part_010
PatchUserPayment(req) ==
  /\ variant = "auth"
  /\ LET body == req.body
         matched == matchForPayment(cart, req.user, body.itemIds)
         set == castUpdate([status |-> body.status], UserCartItemPaths)
     IN IF ~PaymentPatchValid(body)
          THEN /\ last' = Respond("payment", req, 400, PaymentPatchInvalid, <<>>)
               /\ UNCHANGED cart
        ELSE IF \E n \in 1..Len(body.itemIds) : body.itemIds[n] = MalformedId
          THEN /\ last' = Respond("payment", req, 500,
                     [success |-> FALSE, message |-> <<"Internal server error">>],
                     <<>>)
               /\ UNCHANGED cart
        ELSE IF Cardinality(matched) = 0
          THEN /\ last' = Respond("payment", req, 404, PaymentPatchNotFound, <<>>)
               /\ UNCHANGED cart
        ELSE /\ cart' = (cart \ matched) \cup {Spread(d, set) : d \in matched}
             /\ last' = Respond("payment", req, 200,
                                PaymentPatchDone(Cardinality(matched)), <<>>)
  /\ UNCHANGED nextCartId
  /\ UnchangedOrders

---------------------------------------------------------------------------
(* utils/emailService.js (unnamed/part_002): the Notifier, in its Brevo    *)
(* SDK version and its axios version.                                      *)

\* emailConfig as the environment can make it
EmailConfigs ==
  {[enabled |-> en, adminEmail |-> "admin@mousepad.com",
    brevo |-> [apiKey |-> k]] : en \in BOOLEAN, k \in {"", "key-1"}}

\* loadEmailTemplate(): the file's text, or null ("") when it cannot be read
Templates == {"", "<html>"}

\* error.response.data of a rejected request
ErrorData == {EmptyObject, [message |-> "Key not found"]}

\* What becomes of the call to the Brevo API
ApiOutcomes ==
  { [kind |-> "returned", data |-> [messageId |-> "m-1"]],
    [kind |-> "returned", data |-> EmptyObject],
    [kind |-> "rejected", error |-> [message |-> ""]],
    [kind |-> "rejected",
     error |-> [message |-> "timeout of 15000ms exceeded", request |-> TRUE]],
    [kind |-> "pending"] }
    \cup {[kind |-> "rejected",
           error |-> [message |-> "Request failed",
                      response |-> [status |-> s, data |-> d]]] :
            s \in {400, 401, 403, 500}, d \in ErrorData}

\* The promise of an async function: resolved with a value, rejected with
\* an error, or still pending; calls are the requests made to the API
Resolved(value, calls) ==
  [settled |-> "resolved", value |-> value, calls |-> calls]

Pending(calls) == [settled |-> "pending", calls |-> calls]

\* The error the try block throws before the API call (a stored order has
\* an _id, so nothing else in the block throws)
ThrownBeforeSend(order, template) ==
  IF template = "" THEN [message |-> "Failed to load email template"]
  ELSE EmptyObject

SendRequest(order, emailConfig) ==
  <<[fn |-> "sendTransacEmail", to |-> emailConfig.adminEmail,
     apiKey |-> emailConfig.brevo.apiKey, orderId |-> order._id]>>

Sent(data) ==
  Spread([success |-> TRUE, message |-> "Email sent successfully"],
         Pick(data, {"messageId"}))

\* catch (error) of the SDK version
CaughtRethrows(error, calls) ==
  [settled |-> "rejected", value |-> error, calls |-> calls]
Caught(error, calls) ==
  Resolved([success |-> FALSE,
            error |-> FirstTruthy(<<error.message>>, "Failed to send email")],
           calls)

\* catch (error) of the axios version
CaughtAxios(error, calls) ==
  LET errorMessage == FirstTruthy(<<error.message>>, "Failed to send email")
      detail(fallback) ==
        FirstTruthy(<<IF Has(error.response.data, "message")
                        THEN error.response.data.message ELSE "">>, fallback)
  IN Resolved(
       [success |-> FALSE,
        error |->
          IF Has(error, "response")
            THEN CASE error.response.status = 401 ->
                        <<"Authentication failed (401)",
                          detail("API Key is invalid or not enabled")>>
                   [] error.response.status = 400 ->
                        <<"Bad request (400)", detail("Invalid email data")>>
                   [] error.response.status = 403 ->
                        <<"Forbidden (403)",
                          detail("API key does not have permission")>>
                   [] OTHER ->
                        <<"API error", error.response.status,
                          detail(errorMessage)>>
          ELSE IF Has(error, "request")
            THEN <<"No response from Brevo API">>
          ELSE <<errorMessage>>],
       calls)

\* sendOrderConfirmationEmail(order), Brevo SDK version
sendOrderConfirmationEmail(order, emailConfig, template, outcome) ==
  IF ~emailConfig.enabled
    THEN Resolved([success |-> FALSE,
                   message |-> "Email service is disabled"], <<>>)
  ELSE IF emailConfig.brevo.apiKey = ""
    THEN Resolved([success |-> FALSE,
                   message |-> "Email API key not configured"], <<>>)
  ELSE IF ThrownBeforeSend(order, template) # EmptyObject
    THEN Caught(ThrownBeforeSend(order, template), <<>>)
  ELSE LET calls == SendRequest(order, emailConfig)
       IN CASE outcome.kind = "returned" ->
                 Resolved(Sent(outcome.data), calls)
            [] outcome.kind = "rejected" -> Caught(outcome.error, calls)
            [] OTHER -> Pending(calls)

\* sendOrderConfirmationEmail(order), axios version
sendOrderConfirmationEmailAxios(order, emailConfig, template, outcome) ==
  IF ~emailConfig.enabled
    THEN Resolved([success |-> FALSE,
                   message |-> "Email service is disabled"], <<>>)
  ELSE IF emailConfig.brevo.apiKey = ""
    THEN Resolved([success |-> FALSE,
                   message |-> "Email API key not configured"], <<>>)
  ELSE IF ThrownBeforeSend(order, template) # EmptyObject
    THEN CaughtAxios(ThrownBeforeSend(order, template), <<>>)
  ELSE LET calls == SendRequest(order, emailConfig)
       IN CASE outcome.kind = "returned" ->
                 Resolved(Sent(outcome.data), calls)
            [] outcome.kind = "rejected" -> CaughtAxios(outcome.error, calls)
            [] OTHER -> Pending(calls)

\* The orders the last response dispatched to the Notifier
NotifierOrders ==
  {last.calls[n].order :
     n \in {k \in 1..Len(last.calls) :
              last.calls[k].fn = "sendOrderConfirmationEmail"}}

\* One run of the Notifier on an order the payment-status handler gave it
SendOrderConfirmationEmail(version, order, emailConfig, template, outcome) ==
  /\ variant = "auth"
  /\ order \in NotifierOrders
  /\ LET result == IF version = "sdk"
                     THEN sendOrderConfirmationEmail(
                            order, emailConfig, template, outcome)
                     ELSE sendOrderConfirmationEmailAxios(
                            order, emailConfig, template, outcome)
     IN last' = Respond("sendOrderConfirmationEmail",
                        [version |-> version, order |-> order,
                         emailConfig |-> emailConfig, template |-> template,
                         outcome |-> outcome],
                        0, result, result.calls)
  /\ UNCHANGED <<variant, cart, nextCartId, orders, nextOrderId, inflight>>

---------------------------------------------------------------------------
(* Transform-on-write strategy: middleware/validate.js (unnamed/part_002), *)
(* processImage of utils/imageProcessor.js and of utils/imageConverter.js  *)
(* (unnamed/part_002), and POST / of unnamed/part_008 and of the second    *)
(* router of routes/cart.js.                                               *)

\* imageConfig: processing is on and both fallbacks are enabled
imageConfig ==
  [enabled |-> TRUE,
   fallback |-> [useOriginal |-> TRUE, continueOnError |-> TRUE]]

\* validateCartItem(req, res, next): "" when it calls next(), the error of
\* its 400 response otherwise
validateCartItem(body) ==
  IF ~TruthyStr(body, "userEmail") THEN "User email is required"
  ELSE IF ~TruthyStr(body, "id") THEN "Item ID is required"
  ELSE IF ~Truthy(body, "image") \/ ~Truthy(body, "finalImage")
    THEN "Image data is required"
  ELSE IF ~(/\ Has(body, "specs")
            /\ \A k \in {"type", "size", "thickness"} : TruthyStr(body.specs, k))
    THEN "Mousepad specifications are required"
  ELSE IF ~isEmail(Parts(body.userEmail)) THEN "Invalid email format"
  ELSE IF ~Has(body, "price") \/ body.price < 0
    THEN "Price must be a positive number"
  ELSE IF ~Has(body, "quantity") \/ body.quantity < 1
    THEN "Quantity must be at least 1"
  ELSE IF Has(body, "currency") /\ body.currency \notin Currencies
    THEN "Currency must be USD or SGD"
  ELSE ""

\* What the transformation of one image (the upload to the Media Store, the
\* conversion by sharp) can do
TransformOutcomes == {"ok", "fails"}

\* secure_url of an upload into folder
UploadedUrl(folder) ==
  <<"https:", "res.cloudinary.com", "upload", folder, "new.jpg">>

\* The compressed JPEG the converter returns
CompressedData == <<"data:", "image/jpeg;base64,", "/9j/4AAQSkZJRg">>

\* A second inline image
InlineData2 == <<"data:", "image/png;base64,", "iVBORw0KGgp">>

\* processImage of utils/imageProcessor.js: the value it returns, or thrown
processImage(base64Image, folder, outcome) ==
  IF typeof(base64Image) = "string" /\ startsWith(base64Image, "https:")
    THEN [value |-> base64Image, thrown |-> FALSE]
  ELSE IF typeof(base64Image) = "string" /\ outcome = "ok"
    THEN [value |-> UploadedUrl(folder), thrown |-> FALSE]
  ELSE IF imageConfig.fallback.useOriginal
    THEN [value |-> base64Image, thrown |-> FALSE]
  ELSE [value |-> base64Image, thrown |-> TRUE]

\* processImage of utils/imageConverter.js: every failure, and every value
\* sharp cannot read as image data, ends in the original being returned
processImageConverter(base64Image, folder, outcome) ==
  IF /\ typeof(base64Image) = "string"
     /\ startsWith(base64Image, "data:")
     /\ outcome = "ok"
    THEN [value |-> CompressedData, thrown |-> FALSE]
  ELSE [value |-> base64Image, thrown |-> FALSE]

\* The image-bearing fields in the order the handler processes them: the
\* path of each, the folder of its image type and the fallback that decides
\* after a throw
ImageSlots ==
  << [path |-> <<"image">>, folder |-> "main", flag |-> "useOriginal"],
     [path |-> <<"finalImage">>, folder |-> "final", flag |-> "useOriginal"],
     [path |-> <<"configuration", "imageSettings", "uploadedImage">>,
      folder |-> "config", flag |-> "continueOnError"],
     [path |-> <<"configuration", "imageSettings", "editedImage">>,
      folder |-> "final", flag |-> "continueOnError"],
     [path |-> <<"configuration", "imageSettings", "originalImage">>,
      folder |-> "config", flag |-> "continueOnError"],
     [path |-> <<"configuration", "uploadedImages", 1>>,
      folder |-> "config", flag |-> "continueOnError"],
     [path |-> <<"configuration", "uploadedImages", 2>>,
      folder |-> "config", flag |-> "continueOnError"] >>

\* obj?.a?.b: EmptyString when a step of the path is missing
RECURSIVE GetPath(_, _)
GetPath(obj, path) ==
  IF path = <<>> THEN obj
  ELSE IF Head(path) \in DOMAIN obj THEN GetPath(obj[Head(path)], Tail(path))
  ELSE EmptyString

\* obj with the value at path (which exists) replaced
RECURSIVE SetPath(_, _, _)
SetPath(obj, path, value) ==
  IF path = <<>> THEN value
  ELSE [obj EXCEPT ![Head(path)] = SetPath(obj[Head(path)], Tail(path), value)]

\* One guarded step of the handler: if the field holds a value, try
\* processImage on it; a throw aborts the handler unless the fallback of
\* the slot is enabled.  data is the payload so far.
ProcessFieldAborts(version, data, slot, outcome) ==
  LET value == GetPath(data, slot.path)
  IN IF value = EmptyString \/ ~imageConfig.enabled
       THEN [data |-> data, thrown |-> FALSE]
     ELSE IF outcome = "fails" THEN [data |-> data, thrown |-> TRUE]
     ELSE [data |-> SetPath(data, slot.path,
                            processImage(value, slot.folder, outcome).value),
           thrown |-> FALSE]
ProcessField(version, data, slot, outcome) ==
  LET value == GetPath(data, slot.path)
      result == IF version = "upload"
                  THEN processImage(value, slot.folder, outcome)
                  ELSE processImageConverter(value, slot.folder, outcome)
  IN IF value = EmptyString \/ ~imageConfig.enabled
       THEN [data |-> data, thrown |-> FALSE]
     ELSE IF result.thrown
       THEN [data |-> data, thrown |-> ~imageConfig.fallback[slot.flag]]
     ELSE [data |-> SetPath(data, slot.path, result.value), thrown |-> FALSE]

\* The steps for slots n..Len(ImageSlots), stopping at the first throw
RECURSIVE ProcessFrom(_, _, _, _)
ProcessFrom(version, data, n, outcomes) ==
  IF n > Len(ImageSlots) THEN [data |-> data, thrown |-> FALSE]
  ELSE LET step == ProcessField(version, data, ImageSlots[n], outcomes[n])
       IN IF step.thrown THEN step
          ELSE ProcessFrom(version, step.data, n + 1, outcomes)

\* A full item of the storefront with inline images in every slot
TransformBody ==
  [userEmail |-> "ann@shop.io", id |-> "a1", name |-> "Pad", quantity |-> 2,
   price |-> 10, currency |-> "USD", specs |-> SpecsFull,
   image |-> InlineData, finalImage |-> InlineData2,
   originalImageUrl |-> HostedOrig,
   configuration |->
     [mousepadSize |-> "400x900",
      imageSettings |-> [uploadedImage |-> InlineData, editedImage |-> InlineData2,
                         originalImage |-> InlineData, zoom |-> 1],
      uploadedImages |-> <<InlineData, InlineData2>>]]

\* The bodies of POST /: the full item, an item with an already hosted
\* image and no configuration, and items validateCartItem refuses
TransformBodies ==
  { TransformBody,
    [userEmail |-> "ann@shop.io", id |-> "a1", quantity |-> 1, price |-> 25,
     specs |-> SpecsFull, image |-> HostedMain, finalImage |-> InlineData,
     originalImageUrl |-> HostedOrig],
    Pick(TransformBody, DOMAIN TransformBody \ {"specs"}),
    Pick(TransformBody, DOMAIN TransformBody \ {"originalImageUrl"}) }

\* The outcome of each slot's transformation in one request for body (a
\* slot the body leaves empty is never transformed)
SlotOutcomes(body) ==
  LET used == {n \in 1..Len(ImageSlots) :
                 GetPath(body, ImageSlots[n].path) # EmptyString}
  IN {o \in [1..Len(ImageSlots) -> TransformOutcomes] :
        LET failing == {n \in 1..Len(ImageSlots) : o[n] = "fails"}
        IN /\ failing \subseteq used
           /\ validateCartItem(body) # "" => failing = {}
           /\ Cardinality(failing) <= MaxFailedSlots \/ failing = used}

\* POST /api/cart of unnamed/part_008 (version "upload") and of the second
\* router of routes/cart.js (version "convert")
PostCartTransform(version, body, outcomes) ==
  /\ variant = "transform"
  /\ LET req == [version |-> version, body |-> body, outcomes |-> outcomes]
         processed == ProcessFrom(version, body, 1, outcomes)
         processedData == processed.data
         existing == FindByIdAndEmail(cart, processedData.id,
                                      processedData.userEmail)
         newCartItem == addToCart(processedData, nextCartId)
         failed == Respond("postTransform", req, 500,
                           Failure("Server error while adding item to cart"),
                           <<>>)
     IN IF validateCartItem(body) # ""
          THEN /\ last' = Respond("postTransform", req, 400,
                                  Failure(validateCartItem(body)), <<>>)
               /\ UNCHANGED <<cart, nextCartId>>
        ELSE IF processed.thrown
          THEN last' = failed /\ UNCHANGED <<cart, nextCartId>>
        ELSE IF existing # {}
          THEN \E existingItem \in existing :
                 LET updatedItem == updateCartItem(existingItem, processedData)
                 IN /\ cart' = (cart \ {existingItem}) \cup {updatedItem}
                    /\ last' = Respond("postTransform", req, 200,
                                       [success |-> TRUE, data |-> updatedItem],
                                       <<>>)
                    /\ UNCHANGED nextCartId
        ELSE IF ~CartItemValid(processedData) \/ DuplicateKey(cart, newCartItem)
          THEN last' = failed /\ UNCHANGED <<cart, nextCartId>>
        ELSE /\ nextCartId <= MaxCartItems
             /\ cart' = cart \cup {newCartItem}
             /\ nextCartId' = nextCartId + 1
             /\ last' = Respond("postTransform", req, 201,
                                [success |-> TRUE, data |-> newCartItem], <<>>)
  /\ Unchanged

---------------------------------------------------------------------------
(* routes/cart.js seen at its awaits.  Each store operation is atomic, but *)
(* a handler that awaits several of them is suspended between them while   *)
(* other requests run; inflight holds the locals of a suspended handler.   *)

Slots == 1..MaxInflight

Idle == [op |-> "idle"]

\* The null a store operation returns when it matches no document
Null == [null |-> TRUE]

Suspend(slot, locals) == inflight' = [inflight EXCEPT ![slot] = locals]

Finish(slot) == inflight' = [inflight EXCEPT ![slot] = Idle]

\* POST /api/cart as far as the answer of findOne (lines 88-102)
PostCartFind(slot, payload) ==
  /\ variant = "email"
  /\ inflight[slot] = Idle
  /\ LET checked == sanitizeCartPayload(payload, FALSE)
         processedData == checked.sanitized
         existing == FindByIdAndEmail(cart, StrOf(processedData, "id"),
                                      StrOf(processedData, "userEmail"))
     IN IF checked.error # <<>>
          THEN /\ last' = Respond("post", payload, 400,
                                  [success |-> FALSE, error |-> checked.error],
                                  <<>>)
               /\ UNCHANGED inflight
        ELSE /\ Suspend(slot, [op |-> "post", req |-> payload,
                               processedData |-> processedData,
                               existingItem |-> existing # {}])
             /\ UNCHANGED last
  /\ UNCHANGED <<variant, cart, nextCartId, orders, nextOrderId>>

\* CartItem.create(data) rejects: a validator fails or the unique index on
\* id raises a duplicate-key error
CreateFails(docs, data, newCartItem) ==
  ~CartItemValid(data) \/ DuplicateKey(docs, newCartItem)

\* POST /api/cart from the answer of findOne on (lines 104-133)
PostCartWrite(slot) ==
  /\ variant = "email"
  /\ inflight[slot].op = "post"
  /\ LET payload == inflight[slot].req
         processedData == inflight[slot].processedData
         matched == FindByIdAndEmail(cart, StrOf(processedData, "id"),
                                     StrOf(processedData, "userEmail"))
         newCartItem == addToCart(processedData, nextCartId)
     IN IF inflight[slot].existingItem
          THEN IF matched = {}
                 THEN /\ last' = Respond("post", payload, 200,
                                   [success |-> TRUE, data |-> Null], <<>>)
                      /\ UNCHANGED <<cart, nextCartId>>
               ELSE \E existingItem \in matched :
                 LET updatedItem == updateCartItem(existingItem, processedData)
                 IN /\ cart' = (cart \ {existingItem}) \cup {updatedItem}
                    /\ last' = Respond("post", payload, 200,
                                       [success |-> TRUE, data |-> updatedItem],
                                       <<>>)
                    /\ UNCHANGED nextCartId
        ELSE IF CreateFails(cart, processedData, newCartItem)
          THEN /\ last' = Respond("post", payload, 500,
                            Failure("Server error while adding item to cart"),
                            <<>>)
               /\ UNCHANGED <<cart, nextCartId>>
        ELSE /\ nextCartId <= MaxCartItems
             /\ cart' = cart \cup {newCartItem}
             /\ nextCartId' = nextCartId + 1
             /\ last' = Respond("post", payload, 201,
                                [success |-> TRUE, data |-> newCartItem], <<>>)
  /\ Finish(slot)
  /\ UNCHANGED <<variant, orders, nextOrderId>>

\* DELETE /api/cart/:id as far as the answer of removeFromCart (lines
\* 189-206): findOneAndDelete finds and deletes in one store operation
RemoveItemDelete(slot, id, body) ==
  /\ variant = "email"
  /\ inflight[slot] = Idle
  /\ LET req == [id |-> id, body |-> body]
         matched == removeFromCart(cart, id, StrOf(body, "userEmail"))
     IN IF ~TruthyStr(body, "userEmail")
          THEN /\ last' = Respond("delete", req, 400,
                                  Failure("User email is required"), <<>>)
               /\ UNCHANGED <<cart, inflight>>
        ELSE IF matched = {}
          THEN /\ last' = Respond("delete", req, 404,
                                  Failure("Cart item not found"), <<>>)
               /\ UNCHANGED <<cart, inflight>>
        ELSE \E deletedItem \in matched :
               /\ cart' = cart \ {deletedItem}
               /\ Suspend(slot, [op |-> "delete", req |-> req,
                                 deleted |-> <<deletedItem>>,
                                 urls |-> CleanupUrls(<<deletedItem>>),
                                 calls |-> <<>>])
               /\ UNCHANGED last
  /\ UNCHANGED <<variant, nextCartId, orders, nextOrderId>>

\* DELETE /api/cart/clear/:userEmail as far as the answer of getUserCart
\* (line 243)
ClearCartRead(slot, userEmail) ==
  /\ variant = "email"
  /\ inflight[slot] = Idle
  /\ Suspend(slot, [op |-> "clearRead", req |-> [userEmail |-> userEmail],
                    cartItems |-> getUserCart(cart, userEmail)])
  /\ UNCHANGED <<variant, cart, nextCartId, orders, nextOrderId, last>>

\* clearUserCart (line 245): deleteMany removes the owner's documents of now
ClearCartDelete(slot) ==
  /\ variant = "email"
  /\ inflight[slot].op = "clearRead"
  /\ LET deleted == clearUserCart(cart, inflight[slot].req.userEmail)
     IN /\ cart' = cart \ deleted
        /\ Suspend(slot, [op |-> "clear", req |-> inflight[slot].req,
                          deleted |-> inflight[slot].cartItems,
                          deletedCount |-> Cardinality(deleted),
                          urls |-> CleanupUrls(inflight[slot].cartItems),
                          calls |-> <<>>])
  /\ UNCHANGED <<variant, nextCartId, orders, nextOrderId, last>>

\* One awaited deleteImage of the cleanup loops (lines 209-215, 249-255)
CleanupStep(slot, outcome) ==
  /\ variant = "email"
  /\ inflight[slot].op \in {"delete", "clear"}
  /\ inflight[slot].urls # <<>>
  /\ LET url == Head(inflight[slot].urls)
     IN Suspend(slot, [inflight[slot] EXCEPT
          !.urls = Tail(@),
          !.calls = Append(@, [url |-> url,
                               remote |-> CallsDestroy(url),
                               outcome |-> outcome,
                               result |-> deleteImage(url, outcome)])])
  /\ UNCHANGED <<variant, cart, nextCartId, orders, nextOrderId, last>>

\* The response that follows the cleanup (lines 222-226, 262-266)
CleanupDone(slot) ==
  /\ variant = "email"
  /\ inflight[slot].op \in {"delete", "clear"}
  /\ inflight[slot].urls = <<>>
  /\ last' = IF inflight[slot].op = "delete"
               THEN RemoveResponse(inflight[slot].req,
                                   inflight[slot].deleted[1],
                                   inflight[slot].calls)
             ELSE Respond("clear", inflight[slot].req, 200,
                          [success |-> TRUE,
                           deletedCount |-> inflight[slot].deletedCount],
                          inflight[slot].calls)
  /\ Finish(slot)
  /\ UNCHANGED <<variant, cart, nextCartId, orders, nextOrderId>>

---------------------------------------------------------------------------
(* routes/order.js POST / seen at its awaits: the ownership check reads    *)
(* the cart items, the order is written later from what was read.          *)

\* POST /api/order as far as the ownership check (lines 13-49)
CreateOrderRead(slot, req) ==
  /\ variant = "auth"
  /\ inflight[slot] = Idle
  /\ LET body == req.body
         userId == req.user.id
         cartItemIds == [n \in 1..Len(body.items) |-> body.items[n].cartItemId]
         cartItems == findOwnedCartItems(cart, cartItemIds, userId)
     IN IF ~OrderBodyValid(body)
          THEN /\ last' = Respond("createOrder", req, 400,
                                  [success |-> FALSE,
                                   errors |-> <<"validation">>], <<>>)
               /\ UNCHANGED inflight
        ELSE IF \E n \in 1..Len(cartItemIds) : cartItemIds[n] = MalformedId
          THEN /\ last' = Respond("createOrder", req, 500,
                            Failure("Server error while creating order"), <<>>)
               /\ UNCHANGED inflight
        ELSE IF ~AllResolved(cartItems, cartItemIds)
          THEN /\ last' = Respond("createOrder", req, 400,
                 Failure("Some cart items do not belong to you or do not exist"),
                 <<>>)
               /\ UNCHANGED inflight
        ELSE /\ Suspend(slot, [op |-> "createOrder", req |-> req,
                               cartItems |-> cartItems])
             /\ UNCHANGED last
  /\ UNCHANGED <<variant, cart, nextCartId, orders, nextOrderId>>

\* (mutant) snapshots taken from the documents stored when the order is
\* written, where they still exist
SnapshotSourceStore(cartItems, docs) ==
  {IF \E d \in docs : d._id = ci._id
     THEN CHOOSE d \in docs : d._id = ci._id
     ELSE ci : ci \in cartItems}

\* The documents items.map copies from (line 54): the cartItems array the
\* ownership check read, whatever the store holds by now
SnapshotSource(cartItems, docs) == cartItems

\* POST /api/order from the orderData literal on (lines 51-107)
CreateOrderWrite(slot) ==
  /\ variant = "auth"
  /\ inflight[slot].op = "createOrder"
  /\ LET req == inflight[slot].req
         cartItems == SnapshotSource(inflight[slot].cartItems, cart)
         orderData == OrderData(req.user.id, req.body, cartItems)
         order == createOrder(orderData, nextOrderId)
     IN IF \/ \E n \in 1..Len(req.body.items) :
                 \A ci \in cartItems : ci._id # req.body.items[n].cartItemId
           \/ ~OrderValid(orderData)
          THEN /\ last' = Respond("createOrder", req, 500,
                            Failure("Server error while creating order"), <<>>)
               /\ UNCHANGED <<orders, nextOrderId>>
        ELSE /\ nextOrderId <= MaxOrders
             /\ orders' = orders \cup {order}
             /\ nextOrderId' = nextOrderId + 1
             /\ last' = Respond("createOrder", req, 201,
                                [success |-> TRUE, data |-> order], <<>>)
  /\ Finish(slot)
  /\ UNCHANGED <<variant, cart, nextCartId>>

---------------------------------------------------------------------------
(* Specifications.                                                         *)

NoRequest == Respond("none", EmptyObject, 0, EmptyObject, <<>>)

InitStore ==
  /\ cart = {}
  /\ nextCartId = 1
  /\ orders = {}
  /\ nextOrderId = 1
  /\ last = NoRequest
  /\ inflight = [slot \in Slots |-> Idle]

InitCart == variant = "email" /\ InitStore

NextCart ==
  \/ \E o \in Owners : GetCart(o)
  \/ \E p \in PostPayloads : PostCart(p)
  \/ \E r \in PutRequests : PutCart(r.id, r.body)
  \/ \E r \in DeleteRequests : DeleteCartItem(r.id, r.body)
  \/ \E o \in Owners : ClearCart(o)
  \/ \E o \in Owners : GetCartSummary(o)
  \/ \E b \in PaymentPatchBodies : PatchPayment(b)

SpecCart == InitCart /\ [][NextCart]_vars

InitOrder == variant = "auth" /\ InitStore

\* The cart routes of the authenticated variant
NextUserCart ==
  \/ \E r \in UserPostRequests : PostUserCart(r)
  \/ \E r \in UserPutRequests : PutUserCart(r)
  \/ \E r \in UserDeleteRequests : DeleteUserCartItem(r)
  \/ \E u \in Users : ClearUserCart(u)

InitImages == InitCart \/ InitOrder

NextImages == NextCart \/ NextUserCart

SpecImages == InitImages /\ [][NextImages]_vars

\* Checkout: carts are filled and changed, orders are created from them
NextOrder ==
  \/ \E r \in CheckoutPostRequests : PostUserCart(r)
  \/ \E r \in CheckoutPutRequests : PutUserCart(r)
  \/ \E r \in UserDeleteRequests : DeleteUserCartItem(r)
  \/ \E u \in Users : ClearUserCart(u)
  \/ \E r \in CreateOrderRequests : CreateOrder(r)

SpecOrder == InitOrder /\ [][NextOrder]_vars

\* Payment: orders are created, read and their payment status updated
NextPayment ==
  \/ \E r \in CheckoutPostRequests : PostUserCart(r)
  \/ \E r \in PaidOrderRequests : CreateOrder(r)
  \/ \E r \in GetOrderRequests : GetOrder(r)
  \/ \E r \in PaymentRequests : UpdatePaymentStatus(r)
  \/ \E r \in PaymentRequests : UpdatePaymentStatusByUserId(r)

SpecPayment == InitOrder /\ [][NextPayment]_vars

\* The payment updates an order goes through between cart operations
LifecyclePaymentRequests ==
  {[user |-> [id |-> u, role |-> "user"], _id |-> 1, body |-> b] :
     u \in Users,
     b \in {[status |-> "completed", paymentTransactionId |-> "txn-1"],
            [status |-> "failed"], [status |-> "refunded"]}}

LifecyclePutRequests ==
  {[user |-> "u1", _id |-> 1, body |-> [price |-> 30]]}

LifecyclePatchRequests ==
  {[user |-> u, body |-> [status |-> "paymentSuccess", itemIds |-> <<1, 2>>]] :
     u \in Users}

\* Lifecycle of an order: every cart operation and every payment update
\* may follow its creation
NextLifecycle ==
  \/ \E r \in CheckoutPostRequests : PostUserCart(r)
  \/ \E r \in LifecyclePutRequests : PutUserCart(r)
  \/ \E r \in UserDeleteRequests : DeleteUserCartItem(r)
  \/ \E u \in Users : ClearUserCart(u)
  \/ \E r \in LifecyclePatchRequests : PatchUserPayment(r)
  \/ \E r \in PaidOrderRequests : CreateOrder(r)
  \/ \E r \in LifecyclePaymentRequests : UpdatePaymentStatus(r)
  \/ \E r \in LifecyclePaymentRequests : UpdatePaymentStatusByUserId(r)

SpecLifecycle == InitOrder /\ [][NextLifecycle]_vars

\* Notification: an order is created, its payment status is updated and the
\* Notifier runs on it under every configuration and API outcome
NextNotifier ==
  \/ \E r \in CheckoutPostRequests : PostUserCart(r)
  \/ \E r \in PaidOrderRequests : CreateOrder(r)
  \/ \E r \in LifecyclePaymentRequests : UpdatePaymentStatusByUserId(r)
  \/ \E v \in {"sdk", "axios"}, o \in NotifierOrders, c \in EmailConfigs,
        t \in Templates, a \in ApiOutcomes :
       SendOrderConfirmationEmail(v, o, c, t, a)

SpecNotifier == InitOrder /\ [][NextNotifier]_vars

\* Bodies with one of the defects a cart item can have: a negative price, a
\* quantity below 1, a currency outside Currencies, specs without thickness
InvalidFieldBodies ==
  { Spread(FullBody, [price |-> 0 - 1]),
    Spread(FullBody, [quantity |-> 0]),
    Spread(FullBody, [quantity |-> 0 - 1]),
    Spread(FullBody, [currency |-> "EUR"]),
    Spread(FullBody, [specs |-> Pick(SpecsFull, {"type", "size"})]) }

\* POST bodies of the e-mail variant: sound ones, ones with an invalid
\* field, one with no owner and one whose owner is no e-mail address
ValidationPayloads ==
  {Spread(b, [userEmail |-> "ann@shop.io", id |-> i]) :
     b \in ValidBodies \cup InvalidFieldBodies, i \in ExternalIds}
    \cup { Spread(FullBody, [id |-> "a1"]),
           Spread(FullBody, [userEmail |-> "ann.shop.io", id |-> "a1"]) }

\* POST requests of the authenticated variant with the same defects
UserValidationRequests ==
  {[user |-> "u1", body |-> b] :
     b \in {FlatBody, NestedBody}
             \cup {Spread(FlatBody, Pick(d, {"price", "quantity", "currency"})) :
                     d \in {Spread(EmptyObject, [price |-> 0 - 1]),
                            Spread(EmptyObject, [quantity |-> 0]),
                            Spread(EmptyObject, [quantity |-> 0 - 1]),
                            Spread(EmptyObject, [currency |-> "EUR"])}}
             \cup {Pick(FlatBody, DOMAIN FlatBody \ {"thickness"})}}

\* Validation: items are added and updated with sound and defective bodies
NextValidation ==
  \/ \E p \in ValidationPayloads : PostCart(p)
  \/ \E r \in DeleteRequests : DeleteCartItem(r.id, r.body)
  \/ \E r \in UserValidationRequests : PostUserCart(r)
  \/ \E r \in UserDeleteRequests : DeleteUserCartItem(r)

SpecValidation == InitImages /\ [][NextValidation]_vars

InitTransform == variant = "transform" /\ InitStore

\* Transform-on-write: items are added and updated while the transformations
\* of their images succeed or fail field by field
NextTransform ==
  \E v \in {"upload", "convert"}, b \in TransformBodies :
    \E o \in SlotOutcomes(b) : PostCartTransform(v, b, o)

SpecTransform == InitTransform /\ [][NextTransform]_vars

\* The items two requests race to add or update: one external id, sent by
\* either owner with either valid body, and one body sanitisation refuses
RacePayloads ==
  {Spread(b, [userEmail |-> o, id |-> "a1"]) : b \in ValidBodies, o \in Owners}
    \cup {Spread(FullBody, [userEmail |-> "ann@shop.io", id |-> "a1",
                            finalImage |-> InlineData])}

\* Concurrent POST /api/cart requests: the existence checks and the writes
\* of up to MaxInflight requests interleave freely
NextAddRace ==
  \/ \E slot \in Slots : \E p \in RacePayloads : PostCartFind(slot, p)
  \/ \E slot \in Slots : PostCartWrite(slot)

SpecAddRace == InitCart /\ [][NextAddRace]_vars

\* The owner whose requests race, and the item they add again and again
RaceOwner == "ann@shop.io"

CleanupRacePayloads ==
  {p \in RacePayloads : p.userEmail = RaceOwner /\ p.finalImage = HostedFinal}

\* Concurrent cart requests of one owner in the e-mail variant: adds,
\* updates, removes and clears interleave at every await
NextCleanupRace ==
  \/ \E slot \in Slots : \E p \in CleanupRacePayloads : PostCartFind(slot, p)
  \/ \E slot \in Slots : PostCartWrite(slot)
  \/ PutCart("a1", [userEmail |-> RaceOwner, quantity |-> 2])
  \/ \E slot \in Slots :
       RemoveItemDelete(slot, "a1", [userEmail |-> RaceOwner])
  \/ \E slot \in Slots : ClearCartRead(slot, RaceOwner)
  \/ \E slot \in Slots : ClearCartDelete(slot)
  \/ \E slot \in Slots : \E outcome \in DestroyOutcomes :
       CleanupStep(slot, outcome)
  \/ \E slot \in Slots : CleanupDone(slot)

SpecCleanupRace == InitCart /\ [][NextCleanupRace]_vars

\* The checkouts that race with cart updates and removals
RaceOrderRequests ==
  {[user |-> [id |-> u, role |-> "user"], body |-> OrderBody(items)] :
     u \in Users,
     items \in {<<ItemLine(1)>>, <<ItemLine(1), ItemLine(2)>>,
                <<ItemLine(UnknownId)>>}}

\* Checkout under concurrency: the referenced cart items are updated and
\* removed between the ownership check and the write of the order
NextOrderRace ==
  \/ \E r \in CheckoutPostRequests : PostUserCart(r)
  \/ \E r \in CheckoutPutRequests : PutUserCart(r)
  \/ \E r \in UserDeleteRequests : DeleteUserCartItem(r)
  \/ \E slot \in Slots : \E r \in RaceOrderRequests : CreateOrderRead(slot, r)
  \/ \E slot \in Slots : CreateOrderWrite(slot)

SpecOrderRace == InitOrder /\ [][NextOrderRace]_vars

---------------------------------------------------------------------------
(* Properties of the e-mail variant (routes/cart.js, models/CartItem.js).  *)

\* The valid payloads of PostPayloads
ValidPayloads ==
  {Spread(b, [userEmail |-> o, id |-> i]) :
     b \in ValidBodies, o \in Owners, i \in ExternalIds}

\* The items of owner o with external id i
ItemsOf(docs, o, i) == {d \in docs : d.userEmail = o /\ d.id = i}

\* C1: under any sequence of POST, PUT, DELETE and clear requests the store
\* holds at most one CartItem for each (owner, external id) pair.
C1_OneItemPerOwnerAndId ==
  \A o \in Owners, i \in ExternalIds : Cardinality(ItemsOf(cart, o, i)) <= 1

\* C1 witness: a repeated POST took the update branch while the store
\* holds two items.
C1_Witness ==
  /\ last.op = "post" /\ last.status = 200
  /\ Cardinality(cart) = 2

\* C2: after a valid payload p is POSTed, the owner's listing contains
\* exactly one item with p.id and every field of p has p's value in it.
C2_UpsertListsPayloadOnce ==
  (last.op = "post" /\ last.req \in ValidPayloads) =>
    LET p == last.req
        listed == SelectSeq(getUserCart(cart, p.userEmail),
                            LAMBDA d : d.id = p.id)
    IN /\ last.status \in {200, 201}
       /\ Len(listed) = 1
       /\ \A k \in DOMAIN p : listed[1][k] = p[k]

\* C7: a DELETE that matches an item answers 200 with that document and
\* the item is gone from the owner's cart, whatever the deleteImage calls
\* returned; and an item only ever appears through a POST or a PUT.
C7_RemoveSurvivesCleanupFailure ==
  [][ /\ \A r \in DeleteRequests :
           ( /\ last'.op = "delete" /\ last'.req = r
             /\ TruthyStr(r.body, "userEmail")
             /\ ItemsOf(cart, r.body.userEmail, r.id) # {} )
           => /\ last'.status = 200
              /\ last'.body.success
              /\ last'.body.data \in ItemsOf(cart, r.body.userEmail, r.id)
              /\ ItemsOf(cart', r.body.userEmail, r.id) = {}
              /\ \A n \in 1..Len(getUserCart(cart', r.body.userEmail)) :
                   getUserCart(cart', r.body.userEmail)[n].id # r.id
      /\ \A o \in Owners, i \in ExternalIds :
           (ItemsOf(cart, o, i) = {} /\ ItemsOf(cart', o, i) # {})
           => last'.op \in {"post", "put"} /\ last'.status \in {200, 201}
    ]_vars

\* C7 witness: an item was removed while one remote delete returned false
\* and another threw.
C7_Witness ==
  /\ last.op = "delete" /\ last.status = 200
  /\ \E n \in 1..Len(last.calls) :
       last.calls[n].remote /\ last.calls[n].outcome = "not found"
  /\ \E n \in 1..Len(last.calls) :
       last.calls[n].remote /\ last.calls[n].outcome = "throws"
  /\ ItemsOf(cart, last.req.body.userEmail, last.req.id) = {}

\* The owner a delete or clear request names
RequestOwner(r) ==
  IF r.op = "clear" THEN r.req.userEmail ELSE StrOf(r.req.body, "userEmail")

RECURSIVE SumQuantity(_)
SumQuantity(docs) ==
  IF docs = {} THEN 0
  ELSE LET d == CHOOSE x \in docs : TRUE
       IN d.quantity + SumQuantity(docs \ {d})

RECURSIVE SumLinePrice(_)
SumLinePrice(docs) ==
  IF docs = {} THEN 0
  ELSE LET d == CHOOSE x \in docs : TRUE
       IN d.price * d.quantity + SumLinePrice(docs \ {d})

\* C9: the summary of an owner reports the sum of quantity and the sum of
\* price * quantity over exactly that owner's items, the currency of the
\* first item of the listing, and 0 / 0 / USD for an empty cart.
C9_SummaryTotals ==
  last.op = "summary" =>
    LET o == last.req.userEmail
        mine == {d \in cart : d.userEmail = o}
        listing == getUserCart(cart, o)
        data == last.body.data
    IN /\ last.status = 200
       /\ data.itemCount = SumQuantity(mine)
       /\ data.totalPrice = SumLinePrice(mine)
       /\ mine # {} => data.currency = listing[1].currency
       /\ mine = {} => data = [itemCount |-> 0, totalPrice |-> 0,
                               currency |-> "USD"]
       /\ (\E d \in mine : mine = {d} /\ d.price = 10 /\ d.quantity = 2)
            => data.itemCount = 2 /\ data.totalPrice = 20

\* C9 witness: a summary over two items of different price, quantity and
\* currency, next to an item of another owner.
C9_Witness ==
  /\ last.op = "summary"
  /\ last.body.data.itemCount = 3 /\ last.body.data.totalPrice = 45
  /\ last.body.data.currency = "SGD"

\* C10: a POST of a valid payload by owner B with an id that owner A holds
\* succeeds as a create, leaves A's item unchanged, and afterwards each
\* owner's cart holds its own item with that id.
C10_IdUniquePerOwner ==
  [][ \A p \in ValidPayloads :
        ( /\ last'.op = "post" /\ last'.req = p
          /\ \E d \in cart : d.id = p.id /\ d.userEmail # p.userEmail
          /\ ItemsOf(cart, p.userEmail, p.id) = {} )
        => /\ last'.status = 201
           /\ \A d \in cart : d.id = p.id => d \in cart'
           /\ ItemsOf(cart', p.userEmail, p.id) # {}
    ]_vars

---------------------------------------------------------------------------
(* Properties of the reject-inline sanitisers (routes/cart.js lines 9-58,  *)
(* unnamed/part_010 lines 9-55).                                           *)

\* The body of the request a POST or PUT response r answers
BodyOf(r) ==
  IF variant = "email" /\ r.op = "post" THEN r.req ELSE r.req.body

IsInline(obj, k) == Has(obj, k) /\ startsWith(obj[k], "data:")

\* The image values a POST or PUT would write, in the order the handler
\* checks them: every image field of the e-mail variant; finalImage (with
\* image standing in when it is absent) and originalImageUrl otherwise.
WrittenImages(body) ==
  IF variant = "email"
    THEN SelectSeq([i \in 1..3 |-> <<ImageFields[i],
                      IF Has(body, ImageFields[i]) THEN body[ImageFields[i]]
                      ELSE EmptyString>>],
                   LAMBDA p : p[2] # EmptyString)
    ELSE SelectSeq(<< <<"finalImage",
                        IF Has(body, "finalImage") /\ body.finalImage # EmptyString
                          THEN body.finalImage
                        ELSE IF Has(body, "image") THEN body.image
                        ELSE EmptyString>>,
                      <<"originalImageUrl",
                        IF Has(body, "originalImageUrl")
                          THEN body.originalImageUrl ELSE EmptyString>> >>,
                   LAMBDA p : p[2] # EmptyString)

\* The request reaches the image checks, and the first written image that
\* is not a hosted string is inline: its field name
FirstInline(r) ==
  LET written == WrittenImages(BodyOf(r))
      bad == SelectSeq(written,
                       LAMBDA p : p[2] = NotAString \/ startsWith(p[2], "data:"))
  IN IF /\ bad # <<>>
        /\ startsWith(bad[1][2], "data:")
        /\ ~(variant = "email" /\ r.op = "put"
             /\ ~TruthyStr(r.req.body, "userEmail"))
       THEN <<bad[1][1]>> ELSE <<>>

\* C3 (as amended): no stored CartItem has an image, finalImage or
\* originalImageUrl that begins with "data:"; a POST or PUT in which a value
\* the handler would write to an image field begins with "data:" is answered
\* 400 and leaves the store unchanged, and the error is "<field> must be
\* uploaded before saving" when that value is the first check to fail.
C3_InlineNeverStored ==
  [][ /\ \A d \in cart' : \A i \in 1..3 : ~IsInline(d, ImageFields[i])
      /\ (/\ last'.op \in {"post", "put"}
          /\ \E n \in 1..Len(WrittenImages(BodyOf(last'))) :
               startsWith(WrittenImages(BodyOf(last'))[n][2], "data:"))
         => /\ last'.status = 400
            /\ ~last'.body.success
            /\ cart' = cart
            /\ FirstInline(last') # <<>>
                 => last'.body.error =
                      <<FirstInline(last')[1], " must be uploaded before saving">>
    ]_vars

\* C3 witness: a PUT of the authenticated variant that carried an inline
\* finalImage for a stored item was refused with the upload message.
C3_Witness ==
  /\ variant = "auth"
  /\ last.op = "put" /\ last.status = 400
  /\ IsInline(last.req.body, "finalImage")
  /\ last.body.error = <<"finalImage", " must be uploaded before saving">>
  /\ \E d \in cart : d._id = last.req._id /\ d.user = last.req.user

\* C3 (as stated): every POST or PUT that carries an image, finalImage or
\* originalImageUrl beginning with "data:" is rejected with the message
\* "must be uploaded before saving" and leaves the store unchanged.
C3_InlineRequestRejected ==
  [][ (/\ last'.op \in {"post", "put"}
       /\ \E i \in 1..3 : IsInline(BodyOf(last'), ImageFields[i]))
      => /\ last'.status = 400
         /\ Has(last'.body, "error")
         /\ last'.body.error[Len(last'.body.error)]
              = " must be uploaded before saving"
         /\ cart' = cart
    ]_vars

---------------------------------------------------------------------------
(* Properties of the order routes (routes/order.js, unnamed/part_007).     *)

\* The cart items of docs that id names and caller owns
OwnedBy(docs, caller, id) == {d \in docs : d._id = id /\ d.user = caller}

\* C4: a createOrder in which some items[i].cartItemId does not resolve to
\* a CartItem of the caller fails as a whole: the orders are unchanged, no
\* CartItem is modified and no notification is sent.
C4_UnownedItemRejectsOrder ==
  [][ (/\ last'.op = "createOrder"
       /\ Has(last'.req.body, "items")
       /\ \E n \in 1..Len(last'.req.body.items) :
            OwnedBy(cart, last'.req.user.id,
                    last'.req.body.items[n].cartItemId) = {})
      => /\ last'.status \in {400, 500}
         /\ ~last'.body.success
         /\ orders' = orders
         /\ cart' = cart
         /\ last'.calls = <<>>
    ]_vars

\* C4 witness: a checkout naming one item of the caller and one item of
\* another user was refused while both items were in the store.
C4_Witness ==
  /\ last.op = "createOrder" /\ last.status = 400
  /\ Has(last.req.body, "items") /\ Len(last.req.body.items) = 2
  /\ OwnedBy(cart, last.req.user.id, last.req.body.items[1].cartItemId) # {}
  /\ \E d \in cart : /\ d._id = last.req.body.items[2].cartItemId
                     /\ d.user # last.req.user.id
  /\ orders = {}

\* C5: every successful createOrder stores one new order whose n-th item
\* carries the referenced cartItemId and, for each snapshot field, the value
\* the caller's CartItem held when the order was created, whatever the
\* request item said.
C5_SnapshotFromStoredItem ==
  [][ (last'.op = "createOrder" /\ last'.status = 201)
      => \E o \in orders' \ orders :
           /\ orders' = orders \cup {o}
           /\ last'.body.data = o
           /\ Len(o.items) = Len(last'.req.body.items)
           /\ \A n \in 1..Len(o.items) :
                /\ o.items[n].cartItemId = last'.req.body.items[n].cartItemId
                /\ \E d \in OwnedBy(cart, last'.req.user.id,
                                    o.items[n].cartItemId) :
                     \A k \in {"name", "quantity", "price", "currency",
                               "finalImage", "originalImageUrl",
                               "mousepadType", "mousepadSize", "thickness"} :
                       o.items[n][k] = d[k]
    ]_vars

\* C5 witness: an order was created from a request item that supplied its
\* own price and name, after the price of the stored item had been changed.
C5_Witness ==
  /\ last.op = "createOrder" /\ last.status = 201
  /\ \E n \in 1..Len(last.req.body.items) :
       /\ Has(last.req.body.items[n], "price")
       /\ last.body.data.items[n].price = 30
       /\ last.body.data.items[n].price # last.req.body.items[n].price
       /\ last.body.data.items[n].name # last.req.body.items[n].name

\* The order status the payment-status table gives
StatusAfterPayment(requested, before) ==
  IF requested = "completed" THEN "processing"
  ELSE IF requested = "failed" THEN "paymentFailed"
  ELSE before

\* C6: a successful payment-status update sets paymentStatus to the
\* requested value and status by the table completed -> processing,
\* failed -> paymentFailed, otherwise unchanged; no other order changes.
C6_PaymentStatusTable ==
  [][ (/\ last'.op \in {"paymentStatus", "paymentStatusByUserId"}
       /\ last'.status = 200)
      => \E before \in orders, after \in orders' :
           /\ before._id = last'.req._id /\ after._id = before._id
           /\ orders' \ {after} = orders \ {before}
           /\ last'.body.data = after
           /\ after.paymentStatus = last'.req.body.status
           /\ after.status =
                StatusAfterPayment(last'.req.body.status, before.status)
    ]_vars

\* C6 witness: a refund left the status paymentFailed that an earlier
\* failed payment had set.
C6_Witness ==
  /\ last.op \in {"paymentStatus", "paymentStatusByUserId"}
  /\ last.status = 200
  /\ last.req.body.status = "refunded"
  /\ last.body.data.paymentStatus = "refunded"
  /\ last.body.data.status = "paymentFailed"

\* The image URLs the snapshots of the orders in docs refer to
SnapshotImages(docs) ==
  UNION {UNION {{o.items[n].finalImage, o.items[n].originalImageUrl} :
                  n \in 1..Len(o.items)} : o \in docs}

\* C11: removing a CartItem, or clearing a cart, leaves the items snapshot
\* of every order unchanged and deletes from the Media Store no image that
\* the finalImage or originalImageUrl of a snapshot refers to.
C11_OrderRenderableAfterDelete ==
  [][ last'.op \in {"delete", "clear"}
      => /\ orders' = orders
         /\ \A n \in 1..Len(last'.calls) :
              (last'.calls[n].remote /\ last'.calls[n].outcome = "ok")
                => last'.calls[n].url \notin SnapshotImages(orders)
    ]_vars

\* The fields of an order that are fixed when it is created
OrderFrame ==
  {"_id", "user", "items", "subtotal", "shipping", "tax", "total",
   "currency", "customerInfo"}

C13_OwnerOrAdminOnly ==
  [][ last'.op \in {"getOrder", "paymentStatus", "paymentStatusByUserId"}
      => LET req == last'.req
             named == {o \in orders : o._id = req._id}
             wellFormed == last'.op = "getOrder"
                             \/ (Has(req.body, "status")
                                 /\ req.body.status \in PaymentStatuses)
         IN /\ (/\ wellFormed /\ named # {}
                /\ \A o \in named : o.user # req.user.id
                /\ req.user.role # "admin")
               => /\ last'.status = 403
                  /\ orders' = orders
                  /\ last'.calls = <<>>
            /\ (wellFormed /\ named = {})
               => last'.status = 404 /\ orders' = orders /\ last'.calls = <<>>
    ]_vars

\* C14: a successful createOrder persists an order whose status and
\* paymentStatus are both "pending" whatever the request body carries, and
\* answers with that persisted order under a newly generated identity.
C14_NewOrderPending ==
  [][ (last'.op = "createOrder" /\ last'.status = 201)
      => LET order == last'.body.data
         IN /\ order.status = "pending"
            /\ order.paymentStatus = "pending"
            /\ orders' = orders \cup {order}
            /\ \A o \in orders : o._id # order._id
            /\ Has(last'.req.body, "_id") => order._id # last'.req.body._id
    ]_vars
C14_Witness ==
  /\ last.op = "createOrder" /\ last.status = 201
  /\ Has(last.req.body, "status") /\ last.req.body.status = "delivered"
  /\ Has(last.req.body, "paymentStatus")
  /\ last.req.body.paymentStatus = "completed"
  /\ last.body.data \in orders

\* C15: every successful createOrder dispatches a Notifier send for the new
\* order, and the response is the same whatever becomes of that send.
C15_CreateOrderNotifies ==
  [][ (last'.op = "createOrder" /\ last'.status = 201)
      => \E n \in 1..Len(last'.calls) :
           /\ last'.calls[n].fn = "sendOrderConfirmationEmail"
           /\ last'.calls[n].order = last'.body.data
    ]_vars

\* C16: every successful updatePaymentStatus, whatever paymentStatus it
\* sets, dispatches exactly one Notifier send, made after the update with
\* the updated order, and answers success without waiting for it.
C16_PaymentUpdateNotifies ==
  [][ (/\ last'.op \in {"paymentStatus", "paymentStatusByUserId"}
       /\ last'.status = 200)
      => /\ Len(last'.calls) = 1
         /\ last'.calls[1].fn = "sendOrderConfirmationEmail"
         /\ last'.calls[1].order = last'.body.data
         /\ last'.calls[1].order \in orders'
    ]_vars

\* The Notifier run fails: the service is disabled or has no key, the
\* template cannot be read, or the API call is rejected
NotifierFails(req) ==
  \/ ~req.emailConfig.enabled
  \/ req.emailConfig.brevo.apiKey = ""
  \/ req.template = ""
  \/ req.outcome.kind = "rejected"

\* C17: sendOrderConfirmationEmail never rejects; on every failure it
\* resolves to a value with success false and an error or a message; it
\* resolves to success true only after the API call was made and returned.
C17_NotifierNeverThrows ==
  last.op = "sendOrderConfirmationEmail"
    => /\ last.body.settled # "rejected"
       /\ NotifierFails(last.req)
            => /\ last.body.settled = "resolved"
               /\ last.body.value.success = FALSE
               /\ Has(last.body.value, "error") \/ Has(last.body.value, "message")
       /\ (last.body.settled = "resolved" /\ last.body.value.success = TRUE)
            => /\ last.calls # <<>>
               /\ last.req.outcome.kind = "returned"
               /\ ~NotifierFails(last.req)
C17_Witness ==
  /\ last.op = "sendOrderConfirmationEmail"
  /\ last.req.order \in orders
  /\ last.req.outcome.kind = "rejected"
  /\ last.calls # <<>>
  /\ last.body.settled = "resolved"
  /\ last.body.value.success = FALSE

\* The owner and the body of a bulkSetPaymentStatus request
PaymentOwner(req) == IF variant = "email" THEN req.email ELSE req.user

PaymentBody(req) == IF variant = "email" THEN req ELSE req.body

\* The items of docs the request names: owned by its owner, id in itemIds
NamedForPayment(docs, req) ==
  {d \in docs :
     /\ IF variant = "email" THEN d.userEmail = PaymentOwner(req)
                             ELSE d.user = PaymentOwner(req)
     /\ \E n \in 1..Len(PaymentBody(req).itemIds) :
          PaymentBody(req).itemIds[n] = (IF variant = "email" THEN d.id ELSE d._id)}

\* C18: bulkSetPaymentStatus sets the given status on exactly the items
\* owned by the given owner whose id is in itemIds, changes no other item,
\* reports how many it modified, and answers not-found when none matches.
C18_BulkStatusOnMatching ==
  [][ (last'.op = "payment" /\ last'.status \in {200, 404})
      => LET req == last'.req
             named == NamedForPayment(cart, req)
         IN /\ last'.status = 404 <=> named = {}
            /\ last'.status = 404 => cart' = cart
            /\ last'.status = 200
                 => /\ cart' = (cart \ named)
                        \cup {Spread(d, [status |-> PaymentBody(req).status]) :
                                d \in named}
                    /\ last'.body = PaymentPatchDone(Cardinality(named))
    ]_vars

\* The owner a removeItem request names ("" when it names none)
RemoveOwner(req) ==
  IF variant = "auth" THEN req.user
  ELSE IF TruthyStr(req.body, "userEmail") THEN req.body.userEmail
  ELSE ""

\* The items of docs a removeItem request matches by id and owner
NamedForRemoval(docs, req) ==
  {d \in docs :
     IF variant = "email" THEN d.id = req.id /\ d.userEmail = RemoveOwner(req)
                          ELSE d._id = req._id /\ d.user = RemoveOwner(req)}

\* C19: removeItem for an (id, owner) pair that matches no item answers
\* not-found, never a server error, leaves the store unchanged and asks the
\* Media Store to delete nothing.
C19_RemoveUnmatchedNotFound ==
  [][ (/\ last'.op = "delete"
       /\ RemoveOwner(last'.req) # ""
       /\ NamedForRemoval(cart, last'.req) = {})
      => /\ last'.status = 404
         /\ cart' = cart
         /\ last'.calls = <<>>
    ]_vars

\* The body of an addOrUpdateItem request
PostBody(req) == IF variant = "email" THEN req ELSE req.body

\* The request has one of the defects C20 names: no owner, an owner that
\* is no e-mail address, specs without type, size or thickness, a negative
\* price, a quantity below 1, a currency outside {USD, SGD}
NamedDefect(req) ==
  LET body == PostBody(req)
  IN \/ variant = "email" /\ ~TruthyStr(body, "userEmail")
     \/ /\ variant = "email" /\ TruthyStr(body, "userEmail")
        /\ ~isEmail(Parts(body.userEmail))
     \/ /\ variant = "email"
        /\ ~(/\ Has(body, "specs")
             /\ \A k \in {"type", "size", "thickness"} : TruthyStr(body.specs, k))
     \/ /\ variant = "auth"
        /\ \E k \in {"mousepadSize", "thickness"} :
             /\ ~TruthyStr(body, k)
             /\ Chain(body, "specs", IF k = "thickness" THEN k ELSE "size") = ""
     \/ Has(body, "price") /\ body.price < 0
     \/ Has(body, "quantity") /\ body.quantity < 1
     \/ Has(body, "currency") /\ body.currency \notin {"USD", "SGD"}

\* C20: addOrUpdateItem with no owner, a malformed owner e-mail, missing
\* specs, a negative price, a quantity below 1 or a currency outside
\* {USD, SGD} answers a validation error (400, never 500) and leaves the
\* store unchanged.
C20_InvalidItemRejected ==
  [][ (last'.op = "post" /\ NamedDefect(last'.req))
      => last'.status = 400 /\ cart' = cart
    ]_vars

\* C21: every cart and order operation answers with one result that carries
\* a success boolean and either a data payload or an error.
C21_ResultShape ==
  last.op \notin {"none", "sendOrderConfirmationEmail"}
    => /\ Has(last.body, "success")
       /\ last.body.success \in BOOLEAN
       /\ Has(last.body, "data") \/ Has(last.body, "error")

\* The value processImage gives for value when the transformation works
Transformed(version, value, folder) ==
  IF version = "upload"
    THEN IF startsWith(value, "https:") THEN value ELSE UploadedUrl(folder)
    ELSE IF startsWith(value, "data:") THEN CompressedData ELSE value

OwnedImageUrls(item) ==
  {item[f] : f \in {"image", "finalImage", "originalImageUrl"} \cap DOMAIN item}
    \ {EmptyString}

\* C23: after a successful removeItem or clearCart a Media Store delete is
\* attempted for every hosted image URL of each deleted item, whatever the
\* outcome of the other deletes, and no remote call is made for a URL that
\* is not hosted on the Media Store.
C23_CleanupCoversOwnedImages ==
  [][ (last'.op \in {"delete", "clear"} /\ last'.status = 200)
      => /\ \A item \in cart \ cart' : \A url \in OwnedImageUrls(item) :
              CallsDestroy(url)
                => \E n \in 1..Len(last'.calls) :
                     last'.calls[n].url = url /\ last'.calls[n].remote
         /\ \A n \in 1..Len(last'.calls) :
              ~CallsDestroy(last'.calls[n].url)
                => ~last'.calls[n].remote /\ last'.calls[n].result
    ]_vars

\* The cart item a request line names exists and belongs to the caller
ResolvesToOwned(line, userId) ==
  \E d \in cart : d._id = line.cartItemId /\ d.user = userId

\* C26: a createOrder request with a valid body and a non-empty items list
\* is accepted exactly when every items[i].cartItemId resolves to a CartItem
\* owned by the caller, also when one owned item is named by several lines.
C26_AcceptedIffAllOwned ==
  [][ ( /\ last'.op = "createOrder"
        /\ OrderBodyValid(last'.req.body)
        /\ \A n \in 1..Len(last'.req.body.items) :
             last'.req.body.items[n].cartItemId # MalformedId )
      => ( last'.status = 201
             <=> \A n \in 1..Len(last'.req.body.items) :
                   ResolvesToOwned(last'.req.body.items[n], last'.req.user.id) )
    ]_vars

\* C28: a successful partial update (PUT) changes only the fields the
\* request supplies; every field of the stored item the body does not
\* mention keeps its value.
C28_UnmentionedFieldsKept ==
  [][ (last'.op = "put" /\ last'.status = 200)
      => \A item \in cart \ cart' :
           \E updatedItem \in cart' \ cart :
             \A f \in DOMAIN item \ DOMAIN last'.req.body :
               f \in DOMAIN updatedItem /\ updatedItem[f] = item[f]
    ]_vars

\* The fields that identify a stored item and its owner
IdentityFields == {"_id", "id", "userEmail", "user"}

\* The owner an update request is addressed to
UpdateOwner(req) ==
  IF Has(req, "user") THEN req.user
  ELSE IF Has(req, "body") THEN req.body.userEmail
  ELSE req.userEmail

\* C29: no successful update (PUT, or the update branch of POST) changes the
\* identity or the owner of the item it is addressed to, whatever id,
\* userEmail or user values its body carries, and it modifies no item of
\* another owner.
C29_UpdateKeepsIdentity ==
  [][ (last'.op \in {"put", "post"} /\ last'.status = 200)
      => \A item \in cart \ cart' :
           \E updatedItem \in cart' \ cart :
             /\ \A f \in IdentityFields \cap DOMAIN item :
                  f \in DOMAIN updatedItem /\ updatedItem[f] = item[f]
             /\ Has(item, "userEmail") => item.userEmail = UpdateOwner(last'.req)
             /\ Has(item, "user") => item.user = UpdateOwner(last'.req)
    ]_vars

\* The operations that update the payment status of an order
PaymentOps == {"paymentStatus", "paymentStatusByUserId"}

\* The order status that follows a payment update with value s
StatusAfter(s, status) ==
  IF s = "completed" THEN "processing"
  ELSE IF s = "failed" THEN "paymentFailed"
  ELSE status

\* C30: every successful updatePaymentStatus call leaves paymentStatus at
\* the value it supplied and the order status at processing after completed,
\* at paymentFailed after failed and as it was after any other value, so
\* that after any sequence of calls the status reflects the last completed
\* or failed one and is pending if there was none; the status is always
\* pending, processing or paymentFailed; and the owner's call on an existing
\* order is never refused, whatever the current paymentStatus.
C30_PaymentStatusSequence ==
  /\ [](\A o \in orders : o.status \in {"pending", "processing", "paymentFailed"})
  /\ [][ last'.op \in PaymentOps
         => /\ last'.status = 200
              => \E o \in orders : \E updated \in orders' :
                   /\ o._id = last'.req._id /\ updated._id = o._id
                   /\ updated.paymentStatus = last'.req.body.status
                   /\ updated.status = StatusAfter(last'.req.body.status, o.status)
                   /\ orders' \ {updated} = orders \ {o}
            /\ ( /\ last'.req.body.status \in PaymentStatuses
                 /\ \E o \in orders : o._id = last'.req._id
                                        /\ o.user = last'.req.user.id )
                 => last'.status = 200
       ]_vars

\* A refund accepted after a completed payment: the order stays processing
C30_Witness ==
  /\ last.op \in PaymentOps /\ last.status = 200
  /\ last.req.body.status = "refunded"
  /\ \E o \in orders : /\ o._id = last.req._id
                       /\ o.paymentStatus = "refunded"
                       /\ o.status = "processing"

\* The stored items of one (owner, id) pair
ItemsOfPair(docs, payload) ==
  FindByIdAndEmail(docs, payload.id, payload.userEmail)

\* The stored item carries every field of the payload with its value
HoldsPayload(item, payload) ==
  \A f \in DOMAIN payload : Has(item, f) /\ item[f] = payload[f]

\* C24: when addOrUpdateItem requests for one (owner, id) pair run
\* concurrently, whatever the order of their existence checks and writes,
\* each request ends with a response, and the store then holds exactly one
\* CartItem for the pair, which carries the payload of one of the requests.
C24_ConcurrentAddOneItem ==
  [][ \A slot \in Slots :
        (inflight[slot].op = "post" /\ inflight'[slot] = Idle)
          => /\ last'.op = "post" /\ last'.req = inflight[slot].req
             /\ last'.status \in {200, 201, 500}
             /\ Cardinality(ItemsOfPair(cart', inflight[slot].req)) = 1
             /\ \A item \in ItemsOfPair(cart', inflight[slot].req) :
                  /\ \E p \in RacePayloads : HoldsPayload(item, p)
                  /\ last'.status \in {200, 201}
                       => HoldsPayload(item, inflight[slot].req)
    ]_vars

\* The image URLs the stored items refer to
ReferencedUrls(docs) == UNION {OwnedImageUrls(d) : d \in docs}

\* C25: the image cleanup of removeItem and clearCart never destroys an
\* asset that a stored CartItem refers to, in any interleaving with
\* addOrUpdateItem and update requests: no database reference is left
\* dangling.
C25_CleanupLeavesNoDanglingReference ==
  [][ \A slot \in Slots :
        ( /\ inflight[slot].op \in {"delete", "clear"}
          /\ inflight'[slot].op = inflight[slot].op
          /\ Len(inflight'[slot].calls) = Len(inflight[slot].calls) + 1 )
        => LET call == inflight'[slot].calls[Len(inflight'[slot].calls)]
           IN (call.remote /\ call.outcome = "ok")
                => call.url \notin ReferencedUrls(cart')
    ]_vars

\* The entry is a complete copy of the snapshot fields of one document
CopyOf(entry, doc) ==
  /\ entry.cartItemId = doc._id
  /\ \A f \in SnapshotFields :
       Has(doc, f) /\ Has(entry, f) /\ entry[f] = doc[f]

\* C27: a createOrder that runs concurrently with update and removeItem
\* requests on the cart items it references is either rejected as a whole,
\* leaving no order, or writes an order of which every entry is a complete
\* copy of the version the ownership check read, also when that item has
\* been changed or deleted before the order is written.
C27_OrderSnapshotsOneVersion ==
  [][ \A slot \in Slots :
        (inflight[slot].op = "createOrder" /\ inflight'[slot] = Idle)
          => IF last'.status = 201
               THEN \E order \in orders' \ orders :
                      /\ orders' = orders \cup {order}
                      /\ Len(order.items) = Len(inflight[slot].req.body.items)
                      /\ \A n \in 1..Len(order.items) :
                           \E ci \in inflight[slot].cartItems :
                             /\ ci._id =
                                  inflight[slot].req.body.items[n].cartItemId
                             /\ CopyOf(order.items[n], ci)
             ELSE orders' = orders
    ]_vars

\* An order written after a referenced cart item was changed or removed
C27_Witness ==
  /\ last.op = "createOrder" /\ last.status = 201
  /\ \E order \in orders :
       /\ order = last.body.data
       /\ \E n \in 1..Len(order.items) :
            \A d \in cart : ~CopyOf(order.items[n], d)

=============================================================================
